---------------------------- MODULE Spec2Model ----------------------------
(***************************************************************************)
(* Front end of a small compiler: the error-tolerant struct parser with    *)
(* its event log and tree builder (crates/parser), and the lowering of a   *)
(* CST to the HIR (crates/hir).                                            *)
(***************************************************************************)
EXTENDS Integers, Sequences, FiniteSets, TLC

VARIABLES
    raw,        \* the lexer's token sequence (whitespace included)
    parser,     \* struct Parser: tokens, events, errors, cursor (+ panic)
    pc,         \* position of the grammar / tree builder in its code
    sink,       \* struct Sink: builder, cursor (+ panic); its tokens are raw
    idx,        \* loop index of Sink::process_events
    itemStart,  \* cursor when the current source_file iteration began
    fieldStart, \* cursor when the current strukt field iteration began
    unit,       \* the items of the cst::SourceFile handed to lower()
    ctx,        \* struct LowerCtx: hir, scopes, errors (+ panic)
    stack,      \* the calls of lower() in progress, innermost first
    vals,       \* what the finished calls returned, latest first
    lpc,        \* lower(): "idle", "lowering", "done" or "panicked"
    tyOf,       \* per expression ID, the type ID expr() returned with it
    boundAt,    \* per LocalDef ID, the statement that allocated it
    refs,       \* the variable references lowered so far, in order
    bodyAt,     \* per function() call finished, the item and its body's ID
    printer     \* pretty_print: PrettyPrintCtx, the sorted Vec and its loop

parseVars == <<raw, parser, pc, sink, idx, itemStart, fieldStart>>

lowerVars == <<unit, ctx, stack, vals, lpc, tyOf, boundAt, refs, bodyAt>>

printVars == <<printer>>

vars == <<raw, parser, pc, sink, idx, itemStart, fieldStart,
          unit, ctx, stack, vals, lpc, tyOf, boundAt, refs, bodyAt,
          printer>>

None == "None"

\* ---------------------------------------------------------------- bounds

MaxTokens == 5

\* expression nodes of a function body drawn over the small alphabet
MaxNodes == 5

\* items of a source file with several items
MaxItems == 2

\* functions of a printed HIR
MaxFunctions == 3

\* ---------------------------------------------------------------- tokens

Whitespace == "Whitespace"

SignificantKinds == {"StructKw", "Ident", "LBrace", "RBrace", "Comma"}

TokenKinds == SignificantKinds \cup {Whitespace}

\* Token { kind, range }: the i-th raw token covers the offsets i-1 .. i.
Token(kinds, i) == [kind |-> kinds[i], range |-> <<i - 1, i>>]

Tokenize(kinds) == [i \in 1..Len(kinds) |-> Token(kinds, i)]

KindSeqs == UNION {[1..n -> TokenKinds] : n \in 0..MaxTokens}

\* Any finite token sequence.
TokenSeqs == {Tokenize(ks) : ks \in KindSeqs}

\* The lexer emits a run of whitespace as one token.
Coalesced(ts) ==
    \A i \in 1..(Len(ts) - 1) :
        ~(ts[i].kind = Whitespace /\ ts[i + 1].kind = Whitespace)

LexerOutputs == {ts \in TokenSeqs : Coalesced(ts)}

\* impl Display for TokenKind
Display(kind) ==
    CASE kind = "LBrace" -> "{"
      [] kind = "RBrace" -> "}"
      [] kind = "Comma" -> ","
      [] kind = "StructKw" -> "struct"
      [] OTHER -> "identifier"

\* ---------------------------------------------------------------- Parser

RECURSIVE Significant(_)
Significant(ts) ==
    IF ts = <<>> THEN <<>>
    ELSE IF Head(ts).kind # Whitespace
         THEN <<Head(ts)>> \o Significant(Tail(ts))
         ELSE Significant(Tail(ts))

Parser_new(ts) ==
    [tokens |-> Significant(ts), events |-> <<>>, errors |-> <<>>,
     cursor |-> 0, panic |-> "none"]

StartNode(kind) == [tag |-> "StartNode", kind |-> kind]

AddToken == [tag |-> "AddToken", kind |-> None]

FinishNode == [tag |-> "FinishNode", kind |-> None]

Expected(range, message) ==
    [tag |-> "Expected", at |-> range, message |-> message]

Missing(offset, message) ==
    [tag |-> "Missing", at |-> offset, message |-> message]

Panic(p, why) == IF p.panic = "none" THEN [p EXCEPT !.panic = why] ELSE p

eof(p) == p.cursor = Len(p.tokens)

\* tokens[cursor] is 0-based in the code, 1-based here.
peek(p) == IF eof(p) THEN None ELSE p.tokens[p.cursor + 1].kind

at(p, kind) == peek(p) = kind

\* at_recovery without its EOF case
at_recovery_no_eof(p) ==
    at(p, "LBrace") \/ at(p, "RBrace") \/ at(p, "StructKw")

at_recovery(p) ==
    eof(p) \/ at(p, "LBrace") \/ at(p, "RBrace") \/ at(p, "StructKw")

push_event(p, e) ==
    IF p.panic # "none" THEN p ELSE [p EXCEPT !.events = Append(@, e)]

start_node(p, kind) == push_event(p, StartNode(kind))

finish_node(p) == push_event(p, FinishNode)

bump_any(p) ==
    IF p.panic # "none" THEN p
    ELSE IF eof(p) THEN Panic(p, "bump_any: assert !eof")
    ELSE [p EXCEPT !.events = Append(@, AddToken), !.cursor = @ + 1]

bump(p, kind) ==
    IF ~at(p, kind) THEN Panic(p, "bump: assert at(kind)") ELSE bump_any(p)

\* error_without_recovery that records the error and consumes nothing
error_without_recovery_no_bump(p, message) ==
    IF p.cursor >= Len(p.tokens)
    THEN Panic(p, "error_without_recovery: tokens[cursor] out of range")
    ELSE finish_node(start_node(
            [p EXCEPT !.errors =
                Append(@, Expected(p.tokens[p.cursor + 1].range, message))],
            "Error"))

error_without_recovery(p, message) ==
    IF p.cursor >= Len(p.tokens)
    THEN Panic(p, "error_without_recovery: tokens[cursor] out of range")
    ELSE finish_node(bump_any(start_node(
            [p EXCEPT !.errors =
                Append(@, Expected(p.tokens[p.cursor + 1].range, message))],
            "Error")))

\* error that consumes the offending token without the Error node around it
error_no_node(p, message) ==
    IF at_recovery(p)
    THEN IF p.cursor = 0 \/ p.cursor - 1 >= Len(p.tokens)
         THEN Panic(p, "error: tokens[cursor - 1] out of range")
         ELSE [p EXCEPT !.errors =
                 Append(@, Missing(p.tokens[p.cursor].range[2], message))]
    ELSE IF p.cursor >= Len(p.tokens)
         THEN Panic(p, "error: tokens[cursor] out of range")
         ELSE bump_any(
                 [p EXCEPT !.errors =
                     Append(@, Expected(p.tokens[p.cursor + 1].range, message))])

\* error that leaves the Error node open
error_unclosed(p, message) ==
    IF at_recovery(p)
    THEN IF p.cursor = 0 \/ p.cursor - 1 >= Len(p.tokens)
         THEN Panic(p, "error: tokens[cursor - 1] out of range")
         ELSE [p EXCEPT !.errors =
                 Append(@, Missing(p.tokens[p.cursor].range[2], message))]
    ELSE IF p.cursor >= Len(p.tokens)
         THEN Panic(p, "error: tokens[cursor] out of range")
         ELSE bump_any(start_node(
                 [p EXCEPT !.errors =
                     Append(@, Expected(p.tokens[p.cursor + 1].range, message))],
                 "Error"))

error(p, message) ==
    IF at_recovery(p)
    THEN IF p.cursor = 0 \/ p.cursor - 1 >= Len(p.tokens)
         THEN Panic(p, "error: tokens[cursor - 1] out of range")
         ELSE [p EXCEPT !.errors =
                 Append(@, Missing(p.tokens[p.cursor].range[2], message))]
    ELSE IF p.cursor >= Len(p.tokens)
         THEN Panic(p, "error: tokens[cursor] out of range")
         ELSE finish_node(bump_any(start_node(
                 [p EXCEPT !.errors =
                     Append(@, Expected(p.tokens[p.cursor + 1].range, message))],
                 "Error")))

expect_with_name(p, kind, name) ==
    IF at(p, kind) THEN bump_any(p) ELSE error(p, name)

expect(p, kind) == expect_with_name(p, kind, Display(kind))


\* ------------------------------------------------------------------ Sink

NodeEntry(kind) == [tag |-> "Node", kind |-> kind, range |-> <<>>]

TokenEntry(token) == [tag |-> "Token", kind |-> token.kind, range |-> token.range]

FinishEntry == [tag |-> "Finish", kind |-> None, range |-> <<>>]

\* SyntaxBuilder: the tree is kept as the flat, bracketed list of its
\* entries in tree order.
SyntaxBuilder_new == <<>>

SyntaxBuilder_start_node(b, kind) == Append(b, NodeEntry(kind))

SyntaxBuilder_add_token(b, token) == Append(b, TokenEntry(token))

SyntaxBuilder_finish_node(b) == Append(b, FinishEntry)

\* Sink { builder, tokens, cursor }: tokens borrows the raw token slice,
\* which is the variable raw.
Sink_new ==
    [builder |-> SyntaxBuilder_new, cursor |-> 0, panic |-> "none"]

Sink_add_token(s) ==
    IF s.panic # "none" THEN s
    ELSE IF s.cursor >= Len(raw)
    THEN [s EXCEPT !.panic = "add_token: tokens[cursor] out of range"]
    ELSE [s EXCEPT
            !.builder = SyntaxBuilder_add_token(@, raw[s.cursor + 1]),
            !.cursor = @ + 1]

\* skip_trivia that leaves the whitespace token where it is
skip_trivia_never(s) == s

skip_trivia(s) ==
    IF s.cursor < Len(raw) /\ raw[s.cursor + 1].kind = Whitespace
    THEN Sink_add_token(s)
    ELSE s

Sink_start_node(s, kind) ==
    IF s.panic # "none" THEN s
    ELSE [s EXCEPT !.builder = SyntaxBuilder_start_node(@, kind)]

Sink_finish_node(s) ==
    IF s.panic # "none" THEN s
    ELSE [s EXCEPT !.builder = SyntaxBuilder_finish_node(@)]

\* the iteration with skip_trivia after a StartNode or AddToken event
process_event_after_start_or_add(s, event, next) ==
    CASE event.tag = "StartNode" -> skip_trivia(Sink_start_node(s, event.kind))
      [] event.tag = "AddToken" -> skip_trivia(Sink_add_token(s))
      [] OTHER -> Sink_finish_node(s)

\* One iteration of the loop of Sink::process_events.
process_event(s, event, next) ==
    LET s1 == CASE event.tag = "StartNode" -> Sink_start_node(s, event.kind)
                [] event.tag = "AddToken" -> Sink_add_token(s)
                [] OTHER -> Sink_finish_node(s)
    IN  IF next.tag \in {"StartNode", "AddToken"} THEN skip_trivia(s1) ELSE s1

\* ------------------------------------------------------------ CST views

\* An absent child (None of an Option<cst::...>).
NoNode == [kind |-> "None"]

IntegerExpr(text) == [kind |-> "IntegerExpr", text |-> text]

VariableExpr(name) == [kind |-> "VariableExpr", name |-> name]

CallExpr(path) == [kind |-> "CallExpr", path |-> path]

BinaryExpr(lhs, rhs, op) ==
    [kind |-> "BinaryExpr", lhs |-> lhs, rhs |-> rhs, op |-> op]

BlockExpr(stmts) == [kind |-> "BlockExpr", stmts |-> stmts]

VarStmt(name, value) == [kind |-> "VarStmt", name |-> name, value |-> value]

LocalPath(item) == [kind |-> "LocalPath", item |-> item]

ForeignPath(module, item) ==
    [kind |-> "ForeignPath", module |-> module, item |-> item]

FunctionItem(name, body) == [kind |-> "Function", name |-> name, body |-> body]

StruktItem == [kind |-> "Strukt"]

\* The range of a CST node is the place of the node in the tree: the child
\* indices from the root (an item's body is child 0, the value of the k-th
\* statement of a block child k, lhs child 1, rhs child 2); part names a
\* token or sub-node of the node.
Range(where, part) == [node |-> where, part |-> part]

\* ------------------------------------------------------- resolved index

Item_Function == [kind |-> "Function"]

Item_Strukt == [kind |-> "Strukt"]

MapGet(m, k) ==
    IF \E e \in m : e[1] = k
    THEN [some |-> TRUE, value |-> (CHOOSE e \in m : e[1] = k)[2]]
    ELSE [some |-> FALSE, value |-> None]

\* insert that keeps the value a key already has
MapInsert_keep(m, k, v) ==
    IF \E e \in m : e[1] = k THEN m ELSE m \cup {<<k, v>>}

MapInsert(m, k, v) == {e \in m : e[1] # k} \cup {<<k, v>>}

MapKeys(m) == {e[1] : e \in m}

StubName == "main"

\* the unit's own stub
Stub == {<<"g", Item_Function>>, <<"S", Item_Strukt>>}

Index ==
    [stubs |-> {<<"main", Stub>>,
                <<"m", {<<"f", Item_Function>>, <<"T", Item_Strukt>>}>>}]

\* resolved_index::pretty_print_ty
pretty_print_ty(ty) ==
    CASE ty = "U32" -> "u32"
      [] ty = "Void" -> "void"
      [] OTHER -> "?"

\* ------------------------------------------------------------- u32

\* a u32 is kept as two 16-bit limbs: its value is hi * Limb + lo
Limb == 65536

U32(hi, lo) == [hi |-> hi, lo |-> lo]

\* checked_mul(10) then checked_add(d), as str::parse::<u32> does per digit
MulAdd(v, d) ==
    LET lo == v.lo * 10 + d
        hi == v.hi * 10 + (lo \div Limb)
    IN  IF hi >= Limb
        THEN [ok |-> FALSE, value |-> v]
        ELSE [ok |-> TRUE, value |-> U32(hi, lo % Limb)]

RECURSIVE ParseDigits(_, _)
ParseDigits(acc, digits) ==
    IF ~acc.ok \/ digits = <<>> THEN acc
    ELSE ParseDigits(MulAdd(acc.value, Head(digits)), Tail(digits))

\* str::parse::<u32> of a string of decimal digits: Err on the empty
\* string and on a value above u32::MAX
parse_u32(text) ==
    IF text = <<>> THEN [ok |-> FALSE, value |-> U32(0, 0)]
    ELSE ParseDigits([ok |-> TRUE, value |-> U32(0, 0)], text)

\* ------------------------------------------------------------- LowerCtx

Hir_default == [map |-> {}, exprs |-> <<>>, local_defs |-> <<>>, tys |-> <<>>]

LowerCtx_new ==
    [hir |-> Hir_default, scopes |-> <<>>, errors |-> <<>>, panic |-> "none"]

Expr_Missing == [tag |-> "Missing"]

Expr_Integer(v) == [tag |-> "Integer", value |-> v]

Expr_Local(id) == [tag |-> "Local", def |-> id]

Expr_Block(stmts) == [tag |-> "Block", stmts |-> stmts]

Expr_Call(path) == [tag |-> "Call", path |-> path]

Expr_Binary(lhs, rhs, op) ==
    [tag |-> "Binary", lhs |-> lhs, rhs |-> rhs, op |-> op]

LocalDef(ty, value) == [ty |-> ty, value |-> value]

Path(module, item) == [module |-> module, item |-> item]

Error(kind, range) == [kind |-> kind, range |-> range]

\* an ErrorKind without fields
ErrorKind(tag) == [tag |-> tag]

TyMismatch(expected, actual) ==
    [tag |-> "TyMismatch", expected |-> expected, actual |-> actual]

\* Arena::alloc: the new ID is the arena's length before the push; IDs are
\* 0-based, entry id is at position id + 1
NextId(arena) == Len(arena)

alloc_expr(c, e) == [c EXCEPT !.hir.exprs = Append(@, e)]

alloc_ty(c, ty) == [c EXCEPT !.hir.tys = Append(@, ty)]

alloc_local_def(c, d) == [c EXCEPT !.hir.local_defs = Append(@, d)]

push_error(c, kind, range) ==
    [c EXCEPT !.errors = Append(@, Error(kind, range))]

LowerPanic(c, why) == [c EXCEPT !.panic = why]

\* what a handler returns: the context it leaves, the Expr and the type ID
Ret(c, e, ty) == [ctx |-> c, expr |-> e, ty |-> ty]

\* (Expr::Missing, self.hir.tys.alloc(ty))
RetMissing(c, ty) == Ret(alloc_ty(c, ty), Expr_Missing, NextId(c.hir.tys))

BinaryOpOf(op) ==
    CASE op = "EqEq" -> "Eq"
      [] op = "BangEq" -> "NEq"
      [] op = "Plus" -> "Add"
      [] op = "Hyphen" -> "Sub"
      [] op = "Star" -> "Mul"
      [] op = "Slash" -> "Div"
      [] op = "Percent" -> "Mod"
      [] op = "Caret" -> "BitXor"
      [] op = "Lt" -> "Lt"
      [] op = "Gt" -> "Gt"
      [] op = "LtEq" -> "LtEq"
      [] op = "GtEq" -> "GtEq"
      [] op = "LtLt" -> "Shl"
      [] op = "GtGt" -> "Shr"
      [] op = "Pipe" -> "BitOr"
      [] op = "And" -> "BitAnd"
      [] op = "PipePipe" -> "Or"
      [] OTHER -> "And"

\* ------------------------------------------------------------- handlers

\* ScopeOf searching from the outermost scope
ScopeOf_outermost(scopes, name) ==
    LET hits == {i \in 1..Len(scopes) : MapGet(scopes[i], name).some}
    IN  IF hits = {} THEN 0 ELSE CHOOSE i \in hits : \A j \in hits : j >= i

\* the scope, innermost first, that binds name; 0 when none does
ScopeOf(scopes, name) ==
    LET hits == {i \in 1..Len(scopes) : MapGet(scopes[i], name).some}
    IN  IF hits = {} THEN 0 ELSE CHOOSE i \in hits : \A j \in hits : j <= i

variable_expr(c, variable, where) ==
    LET i == ScopeOf(c.scopes, variable.name)
    IN  IF i # 0
        THEN LET local_def_id == MapGet(c.scopes[i], variable.name).value
             IN  IF local_def_id >= Len(c.hir.local_defs)
                 THEN Ret(LowerPanic(c, "local_defs.get: no such ID"),
                          Expr_Missing, 0)
                 ELSE Ret(c, Expr_Local(local_def_id),
                          c.hir.local_defs[local_def_id + 1].ty)
        ELSE RetMissing(
                push_error(c, ErrorKind("UndefinedVariable"), Range(where, "expr")),
                "Unknown")

integer_expr(c, integer) ==
    LET value == parse_u32(integer.text)
    IN  IF ~value.ok
        THEN Ret(LowerPanic(c, "integer_expr: unwrap on Err"), Expr_Missing, 0)
        ELSE Ret(alloc_ty(c, "U32"), Expr_Integer(value.value),
                 NextId(c.hir.tys))

\* what path() returns: Some((Path, &Item)) or None, and the context
PathRet(c, some, p, item) ==
    [ctx |-> c, some |-> some, path |-> p, item |-> item]

PathNone(c) == PathRet(c, FALSE, None, None)

\* foreign_path looking the item up in the unit's own stub
foreign_path_own_stub(c, p, where) ==
    IF p.module = None THEN PathNone(c)
    ELSE LET module_stub == MapGet(Index.stubs, p.module)
         IN  IF ~module_stub.some
             THEN PathNone(push_error(c, ErrorKind("UndefinedModule"),
                                      Range(where, "module")))
             ELSE IF p.item = None THEN PathNone(c)
             ELSE LET item == MapGet(Stub, p.item)
                  IN  IF item.some
                      THEN PathRet(c, TRUE, Path(p.module, p.item), item.value)
                      ELSE PathNone(push_error(c, ErrorKind("UndefinedItem"),
                                               Range(where, "item")))

\* foreign_path that goes on to the item after an undefined module
foreign_path_no_abort(c, p, where) ==
    IF p.module = None THEN PathNone(c)
    ELSE LET module_stub == MapGet(Index.stubs, p.module)
             c1 == IF module_stub.some THEN c
                   ELSE push_error(c, ErrorKind("UndefinedModule"),
                                   Range(where, "module"))
             stub == IF module_stub.some THEN module_stub.value ELSE {}
         IN  IF p.item = None THEN PathNone(c1)
             ELSE LET item == MapGet(stub, p.item)
                  IN  IF item.some
                      THEN PathRet(c1, TRUE, Path(p.module, p.item), item.value)
                      ELSE PathNone(push_error(c1, ErrorKind("UndefinedItem"),
                                               Range(where, "item")))

foreign_path(c, p, where) ==
    IF p.module = None THEN PathNone(c)
    ELSE LET module_stub == MapGet(Index.stubs, p.module)
         IN  IF ~module_stub.some
             THEN PathNone(push_error(c, ErrorKind("UndefinedModule"),
                                      Range(where, "module")))
             ELSE IF p.item = None THEN PathNone(c)
             ELSE LET item == MapGet(module_stub.value, p.item)
                  IN  IF item.some
                      THEN PathRet(c, TRUE, Path(p.module, p.item), item.value)
                      ELSE PathNone(push_error(c, ErrorKind("UndefinedItem"),
                                               Range(where, "item")))

local_path(c, p, where) ==
    IF p.item = None THEN PathNone(c)
    ELSE LET item == MapGet(Stub, p.item)
         IN  IF item.some
             THEN PathRet(c, TRUE, Path(StubName, p.item), item.value)
             ELSE PathNone(push_error(c, ErrorKind("UndefinedItem"),
                                      Range(where, "item")))

path(c, p, where) ==
    IF p.kind = "ForeignPath"
    THEN foreign_path(c, p, where)
    ELSE local_path(c, p, where)

\* call_expr taking any item the path resolves to as callable
call_expr_any_item(c, call, where) ==
    IF call.path = NoNode THEN RetMissing(c, "Void")
    ELSE LET r == path(c, call.path, where)
         IN  IF r.some
             THEN Ret(alloc_ty(r.ctx, "Void"), Expr_Call(r.path),
                      NextId(r.ctx.hir.tys))
             ELSE RetMissing(r.ctx, "Void")

call_expr(c, call, where) ==
    IF call.path = NoNode THEN RetMissing(c, "Void")
    ELSE LET r == path(c, call.path, where)
         IN  IF r.some /\ r.item.kind = "Function"
             THEN Ret(alloc_ty(r.ctx, "Void"), Expr_Call(r.path),
                      NextId(r.ctx.hir.tys))
             ELSE IF r.some
             THEN RetMissing(
                     push_error(r.ctx, ErrorKind("ExpectedFunctionFoundTy"),
                                Range(where, "path")),
                     "Void")
             ELSE RetMissing(r.ctx, "Void")

\* expect_ty_match that accepts every type
expect_ty_match_any(c, expected, actual, range) == [ctx |-> c, ok |-> TRUE]

expect_ty_match(c, expected, actual, range) ==
    IF actual >= Len(c.hir.tys)
    THEN [ctx |-> LowerPanic(c, "tys.get: no such ID"), ok |-> FALSE]
    ELSE LET actual_ty == c.hir.tys[actual + 1]
         IN  IF expected = actual_ty
             THEN [ctx |-> c, ok |-> TRUE]
             ELSE [ctx |-> push_error(c,
                               TyMismatch(pretty_print_ty(expected),
                                          pretty_print_ty(actual_ty)),
                               range),
                   ok |-> FALSE]

\* Operand that reports the mismatch and keeps the operand
Operand_kept(c, cst, v, range) ==
    IF cst = NoNode \/ c.panic # "none" THEN [ctx |-> c, id |-> v.expr]
    ELSE [ctx |-> expect_ty_match(c, "U32", v.ty, range).ctx, id |-> v.expr]

\* the check of one operand of binary_expr: the operand's ID, replaced by
\* a fresh Missing when its type does not match
Operand(c, cst, v, range) ==
    IF cst = NoNode \/ c.panic # "none" THEN [ctx |-> c, id |-> v.expr]
    ELSE LET m == expect_ty_match(c, "U32", v.ty, range)
         IN  IF m.ok \/ m.ctx.panic # "none"
             THEN [ctx |-> m.ctx, id |-> v.expr]
             ELSE [ctx |-> alloc_expr(m.ctx, Expr_Missing),
                   id |-> NextId(m.ctx.hir.exprs)]

\* binary_expr returning the type of its left operand
binary_expr_lhs_ty(c, binary, where, l, r) ==
    IF binary.op = None THEN RetMissing(c, "Unknown")
    ELSE LET lhs == Operand(c, binary.lhs, l, Range(where \o <<1>>, "expr"))
             rhs == Operand(lhs.ctx, binary.rhs, r,
                            Range(where \o <<2>>, "expr"))
         IN  Ret(rhs.ctx,
                 Expr_Binary(lhs.id, rhs.id, BinaryOpOf(binary.op)),
                 l.ty)

\* binary_expr once self.expr(lhs_cst) and self.expr(rhs_cst) have
\* returned l and r
binary_expr(c, binary, where, l, r) ==
    IF binary.op = None THEN RetMissing(c, "Unknown")
    ELSE LET lhs == Operand(c, binary.lhs, l, Range(where \o <<1>>, "expr"))
             rhs == Operand(lhs.ctx, binary.rhs, r,
                            Range(where \o <<2>>, "expr"))
         IN  Ret(alloc_ty(rhs.ctx, "U32"),
                 Expr_Binary(lhs.id, rhs.id, BinaryOpOf(binary.op)),
                 NextId(rhs.ctx.hir.tys))

\* stmt once self.expr(var.value) has returned v: the LocalDef and its
\* binding in the innermost scope
local_def_stmt(c, var, v) ==
    LET c1 == alloc_local_def(c, LocalDef(v.ty, v.expr))
        local_def_id == NextId(c.hir.local_defs)
    IN  IF var.name = None THEN c1
        ELSE IF c1.scopes = <<>>
        THEN LowerPanic(c1, "stmt: scopes.last_mut().unwrap() on None")
        ELSE [c1 EXCEPT !.scopes[Len(c1.scopes)] =
                 MapInsert(@, var.name, local_def_id)]

scopes_push(c) == [c EXCEPT !.scopes = Append(@, {})]

\* scopes_pop that leaves the scope on the stack
scopes_pop_never(c) == c

scopes_pop(c) ==
    IF c.scopes = <<>> THEN c
    ELSE [c EXCEPT !.scopes = SubSeq(@, 1, Len(@) - 1)]

\* ---------------------------------------------------------- pretty_print

\* PrettyPrintCtx { hir, output, indentation } with the Vec of pretty_print
\* and the index of its loop; iter is the order hir.map.iter() yields
Printer_new(hir, iter) ==
    [hir |-> hir, iter |-> iter, map |-> <<>>, output |-> <<>>,
     indentation |-> 0, i |-> 0, pc |-> "collect"]

Printer_idle == [Printer_new(Hir_default, <<>>) EXCEPT !.pc = "idle"]

\* the bytes of a function name
Bytes(name) ==
    CASE name = "B" -> <<66>>
      [] name = "a" -> <<97>>
      [] name = "ab" -> <<97, 98>>
      [] name = "b" -> <<98>>
      [] name = "f" -> <<102>>
      [] name = "g" -> <<103>>
      [] OTHER -> <<>>

\* a <= b in the order of str: byte by byte, a proper prefix first
RECURSIVE str_le(_, _)
str_le(a, b) ==
    IF a = <<>> THEN TRUE
    ELSE IF b = <<>> THEN FALSE
    ELSE IF Head(a) # Head(b) THEN Head(a) < Head(b)
    ELSE str_le(Tail(a), Tail(b))

\* e put behind the entries of sorted whose name is not greater
RECURSIVE SortInsert(_, _)
SortInsert(sorted, e) ==
    IF sorted = <<>> THEN <<e>>
    ELSE IF str_le(Bytes(Head(sorted)[1]), Bytes(e[1]))
    THEN <<Head(sorted)>> \o SortInsert(Tail(sorted), e)
    ELSE <<e>> \o sorted

\* sort_by_key that leaves the Vec as it was collected
sort_by_key_unsorted(map) == map

\* map.sort_by_key(|(name, _)| *name): a stable sort by name
RECURSIVE sort_by_key(_)
sort_by_key(map) ==
    IF map = <<>> THEN <<>>
    ELSE SortInsert(sort_by_key(SubSeq(map, 1, Len(map) - 1)), map[Len(map)])

DigitChars == <<"0", "1", "2", "3", "4", "5", "6", "7", "8", "9">>

\* usize::to_string
RECURSIVE to_string(_)
to_string(n) ==
    IF n < 10 THEN <<DigitChars[n + 1]>>
    ELSE to_string(n \div 10) \o <<DigitChars[(n % 10) + 1]>>

\* u32::to_string, on the two limbs: division by ten, digit by digit
RECURSIVE u32_to_string(_)
u32_to_string(v) ==
    LET lo == (v.hi % 10) * Limb + v.lo
        q == U32(v.hi \div 10, lo \div 10)
    IN  IF q = U32(0, 0) THEN <<DigitChars[(lo % 10) + 1]>>
        ELSE u32_to_string(q) \o <<DigitChars[(lo % 10) + 1]>>

BinaryOpText(op) ==
    CASE op = "Add" -> "+"
      [] op = "Sub" -> "-"
      [] op = "Mul" -> "*"
      [] op = "Div" -> "/"
      [] op = "Mod" -> "%"
      [] op = "BitAnd" -> "&"
      [] op = "BitOr" -> "|"
      [] op = "BitXor" -> "^"
      [] op = "Shl" -> "<<"
      [] op = "Shr" -> ">>"
      [] op = "Eq" -> "=="
      [] op = "NEq" -> "!="
      [] op = "Lt" -> "<"
      [] op = "Gt" -> ">"
      [] op = "LtEq" -> "<="
      [] op = "GtEq" -> ">="
      [] op = "And" -> "&&"
      [] OTHER -> "||"

\* PrettyPrintCtx::newline: what it pushes at an indentation
PrettyPrintCtx_newline(indentation) ==
    <<"\n">> \o [k \in 1..indentation |-> "\t"]

\* PrettyPrintCtx::expr, stmt and block_expr: what each pushes to output;
\* block_expr leaves the indentation as it found it
RECURSIVE PrettyPrintCtx_expr(_, _, _)
RECURSIVE PrettyPrintCtx_stmt(_, _, _)
RECURSIVE PrettyPrintCtx_stmts(_, _, _)

PrettyPrintCtx_block_expr(hir, stmts, indentation) ==
    IF stmts = <<>> THEN <<"{}">>
    ELSE <<"{">>
         \o PrettyPrintCtx_stmts(hir, stmts, indentation + 1)
         \o PrettyPrintCtx_newline(indentation)
         \o <<"}">>

PrettyPrintCtx_stmts(hir, stmts, indentation) ==
    IF stmts = <<>> THEN <<>>
    ELSE PrettyPrintCtx_newline(indentation)
         \o PrettyPrintCtx_stmt(hir, Head(stmts), indentation)
         \o PrettyPrintCtx_stmts(hir, Tail(stmts), indentation)

PrettyPrintCtx_stmt(hir, local_def_id, indentation) ==
    LET local_def == hir.local_defs[local_def_id + 1]
    IN  <<"var l">> \o to_string(local_def_id)
        \o <<" ", pretty_print_ty(hir.tys[local_def.ty + 1]), " = ">>
        \o PrettyPrintCtx_expr(hir, local_def.value, indentation)

PrettyPrintCtx_expr(hir, expr, indentation) ==
    LET e == hir.exprs[expr + 1]
    IN  CASE e.tag = "Missing" -> <<"?">>
          [] e.tag = "Integer" -> u32_to_string(e.value)
          [] e.tag = "Local" -> <<"l">> \o to_string(e.def)
          [] e.tag = "Block" ->
                PrettyPrintCtx_block_expr(hir, e.stmts, indentation)
          [] e.tag = "Call" -> <<e.path.module, ".", e.path.item, "()">>
          [] OTHER ->
                PrettyPrintCtx_expr(hir, e.lhs, indentation)
                \o <<" ", BinaryOpText(e.op), " ">>
                \o PrettyPrintCtx_expr(hir, e.rhs, indentation)

PrettyPrintCtx_item(hir, name, body, indentation) ==
    <<name, " = ">> \o PrettyPrintCtx_expr(hir, body, indentation)

\* ------------------------------------------------------- grammar actions

Running == parser.panic = "none" /\ sink.panic = "none"

\* pc after a parser step: a panic unwinds out of parse().
Goto(p, label) == IF p.panic = "none" THEN label ELSE "panicked"

\* source_file: p.start_node(NodeKind::SourceFile)
SourceFileStart ==
    /\ Running /\ pc = "source_file"
    /\ parser' = start_node(parser, "SourceFile")
    /\ pc' = "item_loop"
    /\ UNCHANGED <<raw, sink, idx, itemStart, fieldStart>>
    /\ UNCHANGED <<lowerVars, printVars>>

\* item, at the struct keyword: strukt opens its node and bumps the keyword
ItemStrukt ==
    /\ Running /\ pc = "item_loop" /\ ~eof(parser)
    /\ peek(parser) = "StructKw"
    /\ parser' = bump(start_node(parser, "Strukt"), "StructKw")
    /\ pc' = Goto(parser', "strukt_name")
    /\ itemStart' = parser.cursor
    /\ fieldStart' = -1
    /\ UNCHANGED <<raw, sink, idx>>
    /\ UNCHANGED <<lowerVars, printVars>>

\* item, at any other token: p.error_without_recovery("item"); the arm for
\* peek() = None is unreachable!()
ItemError ==
    /\ Running /\ pc = "item_loop" /\ ~eof(parser)
    /\ peek(parser) # "StructKw"
    /\ parser' = IF peek(parser) = None
                 THEN Panic(parser, "item: unreachable!()")
                 ELSE error_without_recovery(parser, "item")
    /\ pc' = Goto(parser', "item_loop")
    /\ itemStart' = parser.cursor
    /\ UNCHANGED <<raw, sink, idx, fieldStart>>
    /\ UNCHANGED <<lowerVars, printVars>>

\* source_file: the loop ends at EOF; p.finish_node()
SourceFileFinish ==
    /\ Running /\ pc = "item_loop" /\ eof(parser)
    /\ parser' = finish_node(parser)
    /\ pc' = "process_events"
    /\ UNCHANGED <<raw, sink, idx, itemStart, fieldStart>>
    /\ UNCHANGED <<lowerVars, printVars>>

\* strukt: p.expect_with_name(TokenKind::Ident, "struct name")
StruktName ==
    /\ Running /\ pc = "strukt_name"
    /\ parser' = expect_with_name(parser, "Ident", "struct name")
    /\ pc' = Goto(parser', "strukt_lbrace")
    /\ UNCHANGED <<raw, sink, idx, itemStart, fieldStart>>
    /\ UNCHANGED <<lowerVars, printVars>>

\* strukt: p.expect(TokenKind::LBrace)
StruktLBrace ==
    /\ Running /\ pc = "strukt_lbrace"
    /\ parser' = expect(parser, "LBrace")
    /\ pc' = Goto(parser', "field_loop")
    /\ UNCHANGED <<raw, sink, idx, itemStart, fieldStart>>
    /\ UNCHANGED <<lowerVars, printVars>>

\* strukt: the field loop takes another turn; p.start_node(NodeKind::Field)
FieldStart ==
    /\ Running /\ pc = "field_loop"
    /\ ~at_recovery(parser) /\ ~at(parser, "RBrace")
    /\ parser' = start_node(parser, "Field")
    /\ pc' = "field_name"
    /\ fieldStart' = parser.cursor
    /\ UNCHANGED <<raw, sink, idx, itemStart>>
    /\ UNCHANGED <<lowerVars, printVars>>

\* strukt: p.expect_with_name(TokenKind::Ident, "field name")
FieldName ==
    /\ Running /\ pc = "field_name"
    /\ parser' = expect_with_name(parser, "Ident", "field name")
    /\ pc' = Goto(parser', "field_type")
    /\ UNCHANGED <<raw, sink, idx, itemStart, fieldStart>>
    /\ UNCHANGED <<lowerVars, printVars>>

\* strukt: p.expect_with_name(TokenKind::Ident, "type")
FieldType ==
    /\ Running /\ pc = "field_type"
    /\ parser' = expect_with_name(parser, "Ident", "type")
    /\ pc' = Goto(parser', "field_end")
    /\ UNCHANGED <<raw, sink, idx, itemStart, fieldStart>>
    /\ UNCHANGED <<lowerVars, printVars>>

\* strukt: p.finish_node() of the field, then the optional comma
FieldEnd ==
    /\ Running /\ pc = "field_end"
    /\ parser' = LET p1 == finish_node(parser)
                 IN  IF at(p1, "Comma") THEN bump(p1, "Comma") ELSE p1
    /\ pc' = Goto(parser', "field_loop")
    /\ UNCHANGED <<raw, sink, idx, itemStart, fieldStart>>
    /\ UNCHANGED <<lowerVars, printVars>>

\* strukt: the field loop ends; p.expect(TokenKind::RBrace); p.finish_node()
StruktFinish ==
    /\ Running /\ pc = "field_loop"
    /\ ~(~at_recovery(parser) /\ ~at(parser, "RBrace"))
    /\ parser' = finish_node(expect(parser, "RBrace"))
    /\ pc' = Goto(parser', "item_loop")
    /\ UNCHANGED <<raw, sink, idx, itemStart, fieldStart>>
    /\ UNCHANGED <<lowerVars, printVars>>

\* process_events: the assertion on the last event, and the new Sink
SinkBegin ==
    /\ Running /\ pc = "process_events"
    /\ sink' = IF Len(parser.events) = 0
               THEN [Sink_new EXCEPT
                        !.panic = "process_events: events is empty"]
               ELSE IF parser.events[Len(parser.events)] # FinishNode
               THEN [Sink_new EXCEPT
                        !.panic = "process_events: assert_eq FinishNode"]
               ELSE Sink_new
    /\ idx' = 0
    /\ pc' = IF sink'.panic = "none" THEN "sink_loop" ELSE "panicked"
    /\ UNCHANGED <<raw, parser, itemStart, fieldStart>>
    /\ UNCHANGED <<lowerVars, printVars>>

\* process_events: one iteration of for idx in 0..events.len() - 1
SinkEvent ==
    /\ Running /\ pc = "sink_loop"
    /\ idx < Len(parser.events) - 1
    /\ sink' = process_event(sink, parser.events[idx + 1], parser.events[idx + 2])
    /\ idx' = idx + 1
    /\ pc' = IF sink'.panic = "none" THEN "sink_loop" ELSE "panicked"
    /\ UNCHANGED <<raw, parser, itemStart, fieldStart>>
    /\ UNCHANGED <<lowerVars, printVars>>

\* process_events: after the loop; skip_trivia, finish_node, finish
SinkFinish ==
    /\ Running /\ pc = "sink_loop"
    /\ idx = Len(parser.events) - 1
    /\ sink' = Sink_finish_node(skip_trivia(sink))
    /\ pc' = IF sink'.panic = "none" THEN "done" ELSE "panicked"
    /\ UNCHANGED <<raw, parser, idx, itemStart, fieldStart>>
    /\ UNCHANGED <<lowerVars, printVars>>

ParseInit(inputs) ==
    /\ raw \in inputs
    /\ parser = Parser_new(raw)
    /\ pc = "source_file"
    /\ sink = Sink_new
    /\ idx = 0
    /\ itemStart = -1
    /\ fieldStart = -1
    /\ unit = <<>>
    /\ ctx = LowerCtx_new
    /\ stack = <<>>
    /\ vals = <<>>
    /\ lpc = "idle"
    /\ tyOf = <<>>
    /\ boundAt = <<>>
    /\ refs = <<>>
    /\ bodyAt = <<>>
    /\ printer = Printer_idle

ParseNext ==
    \/ SourceFileStart
    \/ ItemStrukt
    \/ ItemError
    \/ SourceFileFinish
    \/ StruktName
    \/ StruktLBrace
    \/ FieldStart
    \/ FieldName
    \/ FieldType
    \/ FieldEnd
    \/ StruktFinish
    \/ SinkBegin
    \/ SinkEvent
    \/ SinkFinish

\* parse() on the output of the lexer
InitLexed == ParseInit(LexerOutputs)

SpecLexed == InitLexed /\ [][ParseNext]_vars

\* the parser and the tree builder on any finite token sequence
InitTokens == ParseInit(TokenSeqs)

SpecTokens == InitTokens /\ [][ParseNext]_vars


\* ------------------------------------------------------ lowering actions

Lowering == lpc = "lowering" /\ stack # <<>> /\ ctx.panic = "none"

Top == Head(stack)

ExprFrame(cst, where) == [op |-> "expr", cst |-> cst, where |-> where]

AtExpr(kind) == Lowering /\ Top.op = "expr" /\ Top.cst.kind = kind

UnchangedParse == UNCHANGED <<parseVars, printVars>>

\* a step that neither binds a name nor resolves one, nor ends function()
NoBinding == UNCHANGED <<boundAt, refs, bodyAt>>

\* tyOf with no type for the expressions allocated since it was last set
Padded(n) == tyOf \o [i \in 1..(n - Len(tyOf)) |-> -1]

\* the end of expr(): (self.hir.exprs.alloc(expr), ty) is returned to the
\* caller, whose frame is now the top of rest; a panic unwinds instead
ExprReturn(ret, rest, below) ==
    IF ret.ctx.panic # "none"
    THEN /\ ctx' = ret.ctx
         /\ lpc' = "panicked"
         /\ UNCHANGED <<unit, stack, vals, tyOf>>
    ELSE /\ ctx' = alloc_expr(ret.ctx, ret.expr)
         /\ vals' = <<[expr |-> NextId(ret.ctx.hir.exprs), ty |-> ret.ty]>>
                        \o below
         /\ tyOf' = Append(Padded(Len(ret.ctx.hir.exprs)), ret.ty)
         /\ stack' = rest
         /\ UNCHANGED <<unit, lpc>>

\* lower: one turn of for item in source_file.items(tree)
LowerItem ==
    /\ Lowering /\ Top.op = "items" /\ Top.i <= Len(unit)
    /\ LET item == unit[Top.i]
           next == [op |-> "items", i |-> Top.i + 1]
       IN  stack' =
             IF item.kind = "Strukt" \/ item.name = None
             THEN <<next>> \o Tail(stack)
             ELSE <<ExprFrame(item.body, <<Top.i, 0>>),
                    [op |-> "function", name |-> item.name],
                    next>> \o Tail(stack)
    /\ UNCHANGED <<unit, ctx, vals, lpc, tyOf>>
    /\ NoBinding
    /\ UnchangedParse

\* lower: the loop is over; (ctx.hir, ctx.errors) is returned
LowerReturn ==
    /\ Lowering /\ Top.op = "items" /\ Top.i > Len(unit)
    /\ lpc' = "done"
    /\ stack' = Tail(stack)
    /\ UNCHANGED <<unit, ctx, vals, tyOf>>
    /\ NoBinding
    /\ UnchangedParse

\* function that keeps the body a name already has in the map
Function_keep_first ==
    /\ Lowering /\ Top.op = "function"
    /\ ctx' = IF MapGet(ctx.hir.map, Top.name).some THEN ctx
              ELSE [ctx EXCEPT
                      !.hir.map = MapInsert(@, Top.name, Head(vals).expr)]
    /\ vals' = Tail(vals)
    /\ stack' = Tail(stack)
    /\ UNCHANGED <<unit, lpc, tyOf>>
    /\ bodyAt' = Append(bodyAt,
                  [item |-> stack[2].i - 1, name |-> Top.name,
                   expr |-> Head(vals).expr,
                   errors |-> ctx.errors])
    /\ UNCHANGED <<boundAt, refs>>
    /\ UnchangedParse

\* function: self.hir.map.insert(name, expr) once the body is lowered
Function ==
    /\ Lowering /\ Top.op = "function"
    /\ ctx' = [ctx EXCEPT !.hir.map = MapInsert(@, Top.name, Head(vals).expr)]
    /\ vals' = Tail(vals)
    /\ stack' = Tail(stack)
    /\ UNCHANGED <<unit, lpc, tyOf>>
    /\ bodyAt' = Append(bodyAt,
                  [item |-> stack[2].i - 1, name |-> Top.name,
                   expr |-> Head(vals).expr,
                   errors |-> ctx.errors])
    /\ UNCHANGED <<boundAt, refs>>
    /\ UnchangedParse

\* expr(None): (exprs.alloc(Expr::Missing), tys.alloc(Ty::Unknown))
ExprNone ==
    /\ AtExpr("None")
    /\ ctx' = alloc_ty(alloc_expr(ctx, Expr_Missing), "Unknown")
    /\ vals' = <<[expr |-> NextId(ctx.hir.exprs), ty |-> NextId(ctx.hir.tys)]>>
                   \o vals
    /\ tyOf' = Append(Padded(Len(ctx.hir.exprs)), NextId(ctx.hir.tys))
    /\ stack' = Tail(stack)
    /\ UNCHANGED <<unit, lpc>>
    /\ NoBinding
    /\ UnchangedParse

\* binary_expr: self.expr(lhs_cst), then self.expr(rhs_cst)
BinaryOperands ==
    /\ AtExpr("BinaryExpr")
    /\ stack' = <<ExprFrame(Top.cst.lhs, Top.where \o <<1>>),
                  ExprFrame(Top.cst.rhs, Top.where \o <<2>>),
                  [op |-> "binary", cst |-> Top.cst, where |-> Top.where]>>
                    \o Tail(stack)
    /\ UNCHANGED <<unit, ctx, vals, lpc, tyOf>>
    /\ NoBinding
    /\ UnchangedParse

\* binary_expr: the operator, the two type checks and the result
Binary ==
    /\ Lowering /\ Top.op = "binary"
    /\ ExprReturn(binary_expr(ctx, Top.cst, Top.where, vals[2], vals[1]),
                  Tail(stack), Tail(Tail(vals)))
    /\ NoBinding
    /\ UnchangedParse

\* block_expr: self.scopes.push(HashMap::new()), then the statements
BlockOpen ==
    /\ AtExpr("BlockExpr")
    /\ ctx' = scopes_push(ctx)
    /\ stack' = [k \in 1..Len(Top.cst.stmts) |->
                    [op |-> "stmt", cst |-> Top.cst.stmts[k],
                     where |-> Top.where \o <<k>>]]
                  \o <<[op |-> "block", n |-> Len(Top.cst.stmts)]>>
                  \o Tail(stack)
    /\ UNCHANGED <<unit, vals, lpc, tyOf>>
    /\ NoBinding
    /\ UnchangedParse

\* stmt: self.expr(var.value(self.tree))
\* stmt binding the name before lowering the initializer
StmtValue_bind_first ==
    /\ Lowering /\ Top.op = "stmt"
    /\ stack' = <<ExprFrame(Top.cst.value, Top.where),
                  [op |-> "local_def", cst |-> Top.cst, where |-> Top.where]>>
                    \o Tail(stack)
    /\ ctx' = IF Top.cst.name = None \/ ctx.scopes = <<>> THEN ctx
              ELSE [ctx EXCEPT !.scopes[Len(ctx.scopes)] =
                      MapInsert(@, Top.cst.name, NextId(ctx.hir.local_defs))]
    /\ UNCHANGED <<unit, vals, lpc, tyOf>>
    /\ NoBinding
    /\ UnchangedParse

StmtValue ==
    /\ Lowering /\ Top.op = "stmt"
    /\ stack' = <<ExprFrame(Top.cst.value, Top.where),
                  [op |-> "local_def", cst |-> Top.cst, where |-> Top.where]>>
                    \o Tail(stack)
    /\ UNCHANGED <<unit, ctx, vals, lpc, tyOf>>
    /\ NoBinding
    /\ UnchangedParse

\* stmt: local_defs.alloc(LocalDef { ty, value }) and the binding
StmtBind ==
    /\ Lowering /\ Top.op = "local_def"
    /\ ctx' = local_def_stmt(ctx, Top.cst, Head(vals))
    /\ lpc' = IF ctx'.panic = "none" THEN lpc ELSE "panicked"
    /\ vals' = <<[stmt |-> NextId(ctx.hir.local_defs)]>> \o Tail(vals)
    /\ stack' = Tail(stack)
    /\ UNCHANGED <<unit, tyOf>>
    /\ boundAt' = Append(boundAt, [where |-> Top.where, name |-> Top.cst.name])
    /\ UNCHANGED <<refs, bodyAt>>
    /\ UnchangedParse

\* block_expr: self.scopes.pop() and (Expr::Block(stmts), Void)
BlockClose ==
    /\ Lowering /\ Top.op = "block"
    /\ LET n == Top.n
           stmts == [k \in 1..n |-> vals[n + 1 - k].stmt]
           c1 == scopes_pop(ctx)
       IN  ExprReturn(Ret(alloc_ty(c1, "Void"), Expr_Block(stmts),
                          NextId(c1.hir.tys)),
                      Tail(stack), SubSeq(vals, n + 1, Len(vals)))
    /\ NoBinding
    /\ UnchangedParse

Call ==
    /\ AtExpr("CallExpr")
    /\ ExprReturn(call_expr(ctx, Top.cst, Top.where), Tail(stack), vals)
    /\ NoBinding
    /\ UnchangedParse

Variable ==
    /\ AtExpr("VariableExpr")
    /\ ExprReturn(variable_expr(ctx, Top.cst, Top.where), Tail(stack), vals)
    /\ refs' = Append(refs,
                [where |-> Top.where, name |-> Top.cst.name,
                 expr |-> NextId(ctx.hir.exprs),
                 ndefs |-> Len(ctx.hir.local_defs)])
    /\ UNCHANGED <<boundAt, bodyAt>>
    /\ UnchangedParse

Integer ==
    /\ AtExpr("IntegerExpr")
    /\ ExprReturn(integer_expr(ctx, Top.cst), Tail(stack), vals)
    /\ NoBinding
    /\ UnchangedParse

LowerNext ==
    \/ LowerItem
    \/ LowerReturn
    \/ Function
    \/ ExprNone
    \/ BinaryOperands
    \/ Binary
    \/ BlockOpen
    \/ StmtValue
    \/ StmtBind
    \/ BlockClose
    \/ Call
    \/ Variable
    \/ Integer

\* ------------------------------------------------------- lowered units

\* Bodies of any shape over a small alphabet, by number of expression
\* nodes: every statement is `var x = <value>`.
SmallLeaves ==
    {IntegerExpr(<<7>>), VariableExpr("x"), CallExpr(ForeignPath("m", "f"))}

RECURSIVE ExprsOfSize(_), StmtsOfSize(_)
ExprsOfSize(n) ==
    IF n <= 0 THEN {}
    ELSE (IF n = 1 THEN SmallLeaves ELSE {})
         \cup UNION {{BinaryExpr(l, r, "Plus") :
                        l \in ExprsOfSize(i), r \in ExprsOfSize(n - 1 - i)} :
                     i \in 1..(n - 2)}
         \cup {BlockExpr(ss) : ss \in StmtsOfSize(n - 1)}

StmtsOfSize(n) ==
    IF n <= 0 THEN {<<>>}
    ELSE UNION {{<<VarStmt("x", v)>> \o rest :
                    v \in ExprsOfSize(i), rest \in StmtsOfSize(n - i)} :
                i \in 1..n}

SmallBodies == UNION {{BlockExpr(ss) : ss \in StmtsOfSize(n - 1)} : n \in 1..MaxNodes}

\* One-statement bodies over every shape of leaf: every integer text, name
\* and path, absent children and an absent operator.
IntTexts ==
    {<<0>>, <<0, 0, 7>>, <<4, 2, 9, 4, 9, 6, 7, 2, 9, 5>>,
     <<4, 2, 9, 4, 9, 6, 7, 2, 9, 6>>, <<9, 9, 9, 9, 9, 9, 9, 9, 9, 9, 9>>}

Paths ==
    {NoNode}
    \cup {LocalPath(i) : i \in {None, "g", "S", "f"}}
    \cup {ForeignPath(m, i) : m \in {None, "m", "zz"}, i \in {None, "f", "T", "g"}}

Operands ==
    {NoNode, BlockExpr(<<>>),
     BinaryExpr(NoNode, NoNode, None),
     BinaryExpr(IntegerExpr(<<7>>), IntegerExpr(<<7>>), "Star")}
    \cup {IntegerExpr(t) : t \in IntTexts}
    \cup {VariableExpr(n) : n \in {"x", "y"}}
    \cup {CallExpr(p) : p \in Paths}

WideValues ==
    Operands
    \cup {BinaryExpr(l, r, op) :
            l \in Operands, r \in Operands, op \in {"Plus", None}}

WideBodies ==
    {BlockExpr(<<VarStmt(n, v)>>) : n \in {"x", None}, v \in WideValues}

\* Source files of several items: structs, functions without a name or
\* without a body, functions of the same name.
ItemBodies ==
    {NoNode, BlockExpr(<<>>),
     BlockExpr(<<VarStmt("x", IntegerExpr(<<7>>))>>),
     BlockExpr(<<VarStmt("x", VariableExpr("x"))>>)}

Items ==
    {StruktItem}
    \cup {FunctionItem(n, b) : n \in {None, "f", "g"}, b \in ItemBodies}

Units ==
    {<<FunctionItem("f", b)>> : b \in SmallBodies \cup WideBodies}
    \cup UNION {[1..n -> Items] : n \in 0..MaxItems}

LowerInit ==
    /\ unit \in Units
    /\ ctx = LowerCtx_new
    /\ stack = <<[op |-> "items", i |-> 1]>>
    /\ vals = <<>>
    /\ lpc = "lowering"
    /\ tyOf = <<>>
    /\ boundAt = <<>>
    /\ refs = <<>>
    /\ bodyAt = <<>>
    /\ raw = <<>>
    /\ parser = Parser_new(<<>>)
    /\ pc = "idle"
    /\ sink = Sink_new
    /\ idx = 0
    /\ itemStart = -1
    /\ fieldStart = -1
    /\ printer = Printer_idle

\* lower() on one unit
LowerSpec == LowerInit /\ [][LowerNext]_vars

\* ------------------------------------------------------ printing an HIR

UnchangedLower == UNCHANGED <<parseVars, lowerVars>>

\* pretty_print: let mut map: Vec<_> = hir.map.iter().collect()
PrintCollect ==
    /\ printer.pc = "collect"
    /\ printer' = [printer EXCEPT !.map = printer.iter, !.pc = "sort"]
    /\ UnchangedLower

\* pretty_print: map.sort_by_key(|(name, _)| *name)
PrintSort ==
    /\ printer.pc = "sort"
    /\ printer' = [printer EXCEPT !.map = sort_by_key(@), !.pc = "items"]
    /\ UnchangedLower

\* pretty_print: one turn of the loop over the sorted Vec
PrintItem ==
    /\ printer.pc = "items" /\ printer.i < Len(printer.map)
    /\ LET entry == printer.map[printer.i + 1]
       IN  printer' =
             [printer EXCEPT
                !.output = @ \o (IF printer.i # 0 THEN <<"\n\n">> ELSE <<>>)
                             \o PrettyPrintCtx_item(printer.hir, entry[1],
                                                    entry[2],
                                                    printer.indentation),
                !.i = @ + 1]
    /\ UnchangedLower

\* pretty_print: ctx.output is returned
PrintReturn ==
    /\ printer.pc = "items" /\ printer.i = Len(printer.map)
    /\ printer' = [printer EXCEPT !.pc = "done"]
    /\ UnchangedLower

PrintNext ==
    \/ PrintCollect
    \/ PrintSort
    \/ PrintItem
    \/ PrintReturn

\* The arenas lower() leaves for the unit
\*     fn .. { var x = 4294967295; var x = x + m.f() }  fn .. {}  fn ..
\* (the last without a body); the names of the functions vary.
PrintExprs ==
    <<Expr_Integer(U32(65535, 65535)), Expr_Local(0),
      Expr_Call(Path("m", "f")), Expr_Missing, Expr_Binary(1, 3, "Add"),
      Expr_Block(<<0, 1>>), Expr_Block(<<>>), Expr_Missing>>

PrintLocalDefs == <<LocalDef(0, 0), LocalDef(2, 4)>>

PrintTys == <<"U32", "Void", "U32", "Void", "Void", "Unknown">>

\* the bodies of the three functions
PrintBodies == {5, 6, 7}

PrintNames == {"B", "a", "ab", "b"}

\* hir.map: up to MaxFunctions names, each with a body
PrintMaps ==
    UNION {{{<<n, f[n]>> : n \in ns} : f \in [ns -> PrintBodies]} :
           ns \in {ns \in SUBSET PrintNames : Cardinality(ns) <= MaxFunctions}}

\* the orders in which a HashMap of these entries may iterate
IterOrders(map) ==
    {order \in [1..Cardinality(map) -> map] :
        \A i, j \in 1..Cardinality(map) : i # j => order[i] # order[j]}

PrintInit ==
    /\ \E map \in PrintMaps :
         \E iter \in IterOrders(map) :
            printer = Printer_new([map |-> map, exprs |-> PrintExprs,
                                   local_defs |-> PrintLocalDefs,
                                   tys |-> PrintTys],
                                  iter)
    /\ unit = <<>>
    /\ ctx = LowerCtx_new
    /\ stack = <<>>
    /\ vals = <<>>
    /\ lpc = "idle"
    /\ tyOf = <<>>
    /\ boundAt = <<>>
    /\ refs = <<>>
    /\ bodyAt = <<>>
    /\ raw = <<>>
    /\ parser = Parser_new(<<>>)
    /\ pc = "idle"
    /\ sink = Sink_new
    /\ idx = 0
    /\ itemStart = -1
    /\ fieldStart = -1

\* pretty_print() on one HIR
PrintSpec == PrintInit /\ [][PrintNext]_vars

\* ------------------------------------------------------- parser claims

\* the leaf tokens of the tree, in tree order
LeafTokens(b) ==
    LET leaves == SelectSeq(b, LAMBDA e : e.tag = "Token")
    IN  [i \in 1..Len(leaves) |->
            [kind |-> leaves[i].kind, range |-> leaves[i].range]]

C2_NoPanic ==
    /\ parser.panic = "none"
    /\ sink.panic = "none"
    /\ pc # "panicked"

\* a finished parse that went through both recovery branches, on a token
\* sequence with two adjacent whitespace tokens
C2_Witness ==
    /\ pc = "done"
    /\ \E i \in 1..(Len(raw) - 1) :
          raw[i].kind = Whitespace /\ raw[i + 1].kind = Whitespace
    /\ \E i \in 1..Len(parser.errors) : parser.errors[i].tag = "Expected"
    /\ \E i \in 1..Len(parser.errors) : parser.errors[i].tag = "Missing"

ParsePcs ==
    {"source_file", "item_loop", "strukt_name", "strukt_lbrace",
     "field_loop", "field_name", "field_type", "field_end"}

\* C3: parsing never gets stuck before it is done; the parser cursor never
\* decreases and never exceeds the number of significant tokens; every turn
\* of the source_file item loop and of the strukt field loop has advanced
\* the cursor when control is back at the head of the loop.
C3_Progress ==
    /\ [](pc \in ParsePcs => ENABLED ParseNext)
    /\ [][/\ parser'.cursor >= parser.cursor
          /\ parser'.cursor <= Len(parser'.tokens)
          /\ (pc' = "item_loop" /\ pc # "source_file"
                => parser'.cursor > itemStart')
          /\ (pc' = "field_loop" /\ pc = "field_end"
                => parser'.cursor > fieldStart')]_vars

\* a finished parse in which the item loop and the field loop each took a
\* turn that started after the first token, with an error recovered from
C3_Witness ==
    /\ pc = "done"
    /\ itemStart >= 1
    /\ fieldStart >= 1
    /\ Len(parser.errors) >= 1
    /\ parser.cursor = Len(parser.tokens)

\* the expect / expect_with_name call made at each position of strukt
ExpectKind(label) ==
    CASE label = "strukt_name" -> "Ident"
      [] label = "strukt_lbrace" -> "LBrace"
      [] label = "field_name" -> "Ident"
      [] label = "field_type" -> "Ident"
      [] OTHER -> "RBrace"

ExpectName(label) ==
    CASE label = "strukt_name" -> "struct name"
      [] label = "strukt_lbrace" -> "{"
      [] label = "field_name" -> "field name"
      [] label = "field_type" -> "type"
      [] OTHER -> "}"

CurrentKind(p) ==
    IF p.cursor < Len(p.tokens) THEN p.tokens[p.cursor + 1].kind ELSE None

\* EOF, `{`, `}` or the struct keyword
RecoveryPoint(p) == CurrentKind(p) \in {None, "LBrace", "RBrace", "StructKw"}

\* what one expect(kind, name) call may do to the parser p, giving q
ExpectEffect(p, q, kind, name) ==
    IF CurrentKind(p) = kind
    THEN /\ q.events = Append(p.events, AddToken)
         /\ q.cursor = p.cursor + 1
         /\ q.errors = p.errors
    ELSE IF RecoveryPoint(p)
    THEN /\ Len(q.errors) = Len(p.errors) + 1
         /\ SubSeq(q.errors, 1, Len(p.errors)) = p.errors
         /\ q.errors[Len(q.errors)].tag = "Missing"
         /\ q.errors[Len(q.errors)].message = name
         /\ q.errors[Len(q.errors)].at \in Nat
         /\ q.errors[Len(q.errors)].at = p.tokens[p.cursor].range[2]
         /\ q.cursor = p.cursor
         /\ q.events = p.events
    ELSE /\ Len(q.errors) = Len(p.errors) + 1
         /\ SubSeq(q.errors, 1, Len(p.errors)) = p.errors
         /\ q.errors[Len(q.errors)] =
                Expected(p.tokens[p.cursor + 1].range, name)
         /\ q.events =
                p.events \o <<StartNode("Error"), AddToken, FinishNode>>
         /\ q.cursor = p.cursor + 1

\* the parser as expect left it: strukt closes its node right after its
\* last expect
AfterExpect(label, q) ==
    IF label = "field_loop"
    THEN [q EXCEPT !.events = SubSeq(@, 1, Len(@) - 1)]
    ELSE q

ExpectStep ==
    \/ pc \in {"strukt_name", "strukt_lbrace", "field_name", "field_type"}
    \/ (pc = "field_loop" /\ pc' = "item_loop")

\* C7: every expect / expect_with_name call either matches (one AddToken,
\* cursor + 1, no diagnostic), or at a recovery point records exactly one
\* Missing diagnostic (an offset) and leaves cursor and events unchanged, or
\* otherwise records exactly one Expected diagnostic with the current
\* token's range, appends StartNode(Error), AddToken, FinishNode and
\* advances the cursor by one.
C7_Expect ==
    [][ExpectStep =>
          ExpectEffect(parser, AfterExpect(pc, parser'),
                       ExpectKind(pc), ExpectName(pc))]_vars

\* a finished parse in which expect matched, recorded a Missing and
\* recorded an Expected
C7_Witness ==
    /\ pc = "done"
    /\ \E i \in 1..Len(parser.errors) :
          /\ parser.errors[i].tag = "Expected"
          /\ parser.errors[i].message # "item"
    /\ \E i \in 1..Len(parser.errors) : parser.errors[i].tag = "Missing"
    /\ \E i \in 1..(Len(parser.events) - 2) :
          /\ parser.events[i] = StartNode("Strukt")
          /\ parser.events[i + 1] = AddToken
          /\ parser.events[i + 2] = AddToken

\* ------------------------------------------------------ lowering claims

\* C4: lower() never unwinds: no state of lowering has hit
\* scopes.last_mut().unwrap() on an empty scope stack, an arena lookup with
\* an ID the arena did not allocate, or a failing unwrap.
C4_NeverUnwinds ==
    /\ lpc # "panicked"
    /\ ctx.panic = "none"

\* the integer literals of the unit lowered so far all fit a u32
RECURSIVE FitsU32(_)
FitsU32(cst) ==
    CASE cst.kind = "IntegerExpr" -> parse_u32(cst.text).ok
      [] cst.kind = "BinaryExpr" -> FitsU32(cst.lhs) /\ FitsU32(cst.rhs)
      [] cst.kind = "BlockExpr" ->
            \A k \in 1..Len(cst.stmts) : FitsU32(cst.stmts[k].value)
      [] OTHER -> TRUE

\* the only unwind of lower() is the unwrap of integer_expr on a literal
\* that does not fit a u32
C4_OnlyIntegerUnwinds ==
    /\ ctx.panic \in {"none", "integer_expr: unwrap on Err"}
    /\ (\A i \in 1..Len(unit) :
           unit[i].kind = "Function" => FitsU32(unit[i].body))
         => C4_NeverUnwinds

\* the type computed for the expression id when it was lowered
TypeOf(id) ==
    IF id + 1 <= Len(tyOf) /\ tyOf[id + 1] >= 0
    THEN ctx.hir.tys[tyOf[id + 1] + 1]
    ELSE None

OperandOk(id) ==
    /\ id < Len(ctx.hir.exprs)
    /\ \/ ctx.hir.exprs[id + 1] = Expr_Missing
       \/ TypeOf(id) = "U32"

\* C5: every operand ID of every Expr::Binary of the HIR refers to
\* Expr::Missing or to an expression whose type computed during lowering is
\* U32.
C5_OperandsTyped ==
    \A i \in 1..Len(ctx.hir.exprs) :
        ctx.hir.exprs[i].tag = "Binary" =>
            OperandOk(ctx.hir.exprs[i].lhs) /\ OperandOk(ctx.hir.exprs[i].rhs)

\* a returned HIR with a Binary whose lhs survived with type U32 and whose
\* rhs, of another type, was replaced by a Missing allocated for it
C5_Witness ==
    /\ lpc = "done"
    /\ \E i \in 1..Len(ctx.hir.exprs) :
          /\ ctx.hir.exprs[i].tag = "Binary"
          /\ ctx.hir.exprs[ctx.hir.exprs[i].lhs + 1].tag = "Integer"
          /\ TypeOf(ctx.hir.exprs[i].lhs) = "U32"
          /\ ctx.hir.exprs[ctx.hir.exprs[i].rhs + 1] = Expr_Missing
          /\ tyOf[ctx.hir.exprs[i].rhs + 1] = -1
    /\ \E e \in 1..Len(ctx.errors) : ctx.errors[e].kind.tag = "TyMismatch"

\* the block of a binding made at where, and the statement's index in it
BlockOf(where) == SubSeq(where, 1, Len(where) - 1)

StmtOf(where) == where[Len(where)]

\* the binding d is in scope at the reference r: d is an earlier statement
\* of a block that encloses r, and binds r's name
Visible(d, r) ==
    /\ boundAt[d].name = r.name
    /\ Len(r.where) >= Len(boundAt[d].where)
    /\ SubSeq(r.where, 1, Len(boundAt[d].where) - 1) = BlockOf(boundAt[d].where)
    /\ StmtOf(boundAt[d].where) < r.where[Len(boundAt[d].where)]

\* d is at least as deep as e, and later when both are in one block
Inner(d, e) ==
    \/ Len(boundAt[d].where) > Len(boundAt[e].where)
    \/ /\ Len(boundAt[d].where) = Len(boundAt[e].where)
       /\ StmtOf(boundAt[d].where) >= StmtOf(boundAt[e].where)

\* the bindings in scope at r
InScope(r) == {d \in 1..Len(boundAt) : Visible(d, r)}

\* the block of some binding of r's name made before r that has closed
\* before r
ClosedBefore(d, r) ==
    /\ boundAt[d].name = r.name
    /\ d <= r.ndefs
    /\ ~Visible(d, r)

\* C6: a reference to x lowers to Expr::Local of the LocalDef of the
\* innermost enclosing block that has bound x before the reference: inside
\* a nested block that has bound x, of the nested LocalDef; after the nested
\* block has closed, of the outer block's LocalDef.
C6_Shadowing ==
    \A i \in 1..Len(refs) :
        InScope(refs[i]) # {} /\ refs[i].expr < Len(ctx.hir.exprs) =>
            \E d \in InScope(refs[i]) :
                /\ \A e \in InScope(refs[i]) : Inner(d, e)
                /\ ctx.hir.exprs[refs[i].expr + 1] = Expr_Local(d - 1)

\* a returned HIR with a reference inside a nested block resolved to the
\* nested LocalDef, and a reference after that block closed resolved to
\* the outer block's LocalDef although the nested one was allocated before
C6_Witness ==
    /\ lpc = "done"
    /\ \E i \in 1..Len(refs), d \in 1..Len(boundAt) :
          /\ Visible(d, refs[i])
          /\ Len(boundAt[d].where) >= 4
          /\ ctx.hir.exprs[refs[i].expr + 1] = Expr_Local(d - 1)
    /\ \E i \in 1..Len(refs), d \in 1..Len(boundAt), n \in 1..Len(boundAt) :
          /\ Visible(d, refs[i])
          /\ Len(boundAt[d].where) = 3
          /\ ClosedBefore(n, refs[i])
          /\ Len(boundAt[n].where) >= 4
          /\ ctx.hir.exprs[refs[i].expr + 1] = Expr_Local(d - 1)

\* the kind of the item that name is in stub, "unresolved" when it has none
ItemKindIn(stub, name) ==
    IF name \in MapKeys(stub)
    THEN (CHOOSE e \in stub : e[1] = name)[2].kind
    ELSE "unresolved"

\* what the path of a call resolves to in the index and the unit's stub
Resolution(p) ==
    CASE p = NoNode -> "absent"
      [] p.kind = "LocalPath" -> ItemKindIn(Stub, p.item)
      [] p.kind = "ForeignPath" /\ p.module \in MapKeys(Index.stubs) ->
            ItemKindIn((CHOOSE e \in Index.stubs : e[1] = p.module)[2], p.item)
      [] OTHER -> "unresolved"

\* the expression the step has allocated last
NewExpr == ctx'.hir.exprs[Len(ctx'.hir.exprs)]

\* the diagnostics the step has recorded
NewErrors == SubSeq(ctx'.errors, Len(ctx.errors) + 1, Len(ctx'.errors))

\* C8: a call whose path resolves to a Strukt item records exactly one
\* ExpectedFunctionFoundTy diagnostic at the path's range and yields
\* Expr::Missing; a call lowers to Expr::Call only when its path resolves to
\* a Function item; for a resolved function, a struct, an unresolved path
\* and an absent path the type returned for the call is Void.
C8_Call ==
    [][AtExpr("CallExpr") =>
         LET res == Resolution(Top.cst.path)
         IN  /\ lpc' = "lowering"
             /\ Len(ctx'.hir.exprs) = Len(ctx.hir.exprs) + 1
             /\ Head(vals').expr = Len(ctx.hir.exprs)
             /\ ctx'.hir.tys[Head(vals').ty + 1] = "Void"
             /\ (NewExpr.tag = "Call") <=> (res = "Function")
             /\ res # "Function" => NewExpr = Expr_Missing
             /\ res = "Strukt" =>
                   NewErrors = <<Error(ErrorKind("ExpectedFunctionFoundTy"),
                                       Range(Top.where, "path"))>>
             /\ res # "Strukt" =>
                   \A e \in 1..Len(NewErrors) :
                       NewErrors[e].kind.tag # "ExpectedFunctionFoundTy"
             /\ SubSeq(ctx'.errors, 1, Len(ctx.errors)) = ctx.errors]_vars

\* the Void-typed expression that lowering a call of p has yielded
Lowered(p, e) ==
    \E i \in 1..Len(ctx.hir.exprs) :
        /\ ctx.hir.exprs[i] = e
        /\ TypeOf(i - 1) = "Void"
        /\ unit[1].body.stmts[1].value = CallExpr(p)

\* a returned HIR of a call of a struct: one ExpectedFunctionFoundTy at the
\* path and a Void-typed Missing
C8_Witness ==
    /\ lpc = "done"
    /\ Len(unit) = 1 /\ unit[1].kind = "Function"
    /\ unit[1].body.kind = "BlockExpr" /\ Len(unit[1].body.stmts) = 1
    /\ Lowered(ForeignPath("m", "T"), Expr_Missing)
    /\ ctx.errors = <<Error(ErrorKind("ExpectedFunctionFoundTy"),
                            Range(<<1, 0, 1>>, "path"))>>

\* the Path names a Function item of the module it names
NamesFunction(p) ==
    \/ /\ p.module = StubName
       /\ <<p.item, Item_Function>> \in Stub
    \/ \E e \in Index.stubs :
          /\ e[1] = p.module
          /\ <<p.item, Item_Function>> \in e[2]

\* C9: every Expr::Call(path) of the HIR names an existing Function item,
\* and was built after a successful lookup: for a foreign path, of
\* path.module in index.stubs and of path.item in that stub; for a local
\* path, path.module is the unit's own module name and path.item is a key
\* of the unit's own stub. A call whose lookup fails leaves no Path in the
\* HIR.
C9_Paths ==
    /\ [](\A i \in 1..Len(ctx.hir.exprs) :
             ctx.hir.exprs[i].tag = "Call" => NamesFunction(ctx.hir.exprs[i].path))
    /\ [][AtExpr("CallExpr") =>
            LET p == Top.cst.path
            IN  /\ Resolution(p) \in {"absent", "unresolved"} =>
                       ctx'.hir.exprs = Append(ctx.hir.exprs, Expr_Missing)
                /\ NewExpr.tag = "Call" /\ p.kind = "ForeignPath" =>
                       /\ NewExpr.path = Path(p.module, p.item)
                       /\ p.module \in MapKeys(Index.stubs)
                       /\ p.item \in
                            MapKeys(MapGet(Index.stubs, p.module).value)
                /\ NewExpr.tag = "Call" /\ p.kind = "LocalPath" =>
                       /\ NewExpr.path = Path(StubName, p.item)
                       /\ p.item \in MapKeys(Stub)]_vars

\* a returned HIR with a Call built from a foreign path and a Call built
\* from a local path
C9_Witness ==
    /\ lpc = "done"
    /\ \E i \in 1..Len(ctx.hir.exprs) :
          ctx.hir.exprs[i] = Expr_Call(Path("m", "f"))
    /\ \E i \in 1..Len(ctx.hir.exprs) :
          ctx.hir.exprs[i] = Expr_Call(Path(StubName, "g"))

\* the type of a value returned by expr()
TyOfVal(v) == ctx.hir.tys[v.ty + 1]

\* binary_expr is about to run on operands of which exactly one has a type
\* other than U32
OneOperandFails ==
    /\ Lowering /\ Top.op = "binary"
    /\ (TyOfVal(vals[2]) = "U32") # (TyOfVal(vals[1]) = "U32")

\* the step records one TyMismatch at the range of the operand bad, puts a
\* fresh Missing in its place and keeps the ID of the operand good
Replaced(bad, good, where, field, other) ==
    /\ Len(NewErrors) = 1
    /\ NewErrors[1].kind.tag = "TyMismatch"
    /\ NewErrors[1].range = Range(where, "expr")
    /\ SubSeq(ctx'.errors, 1, Len(ctx.errors)) = ctx.errors
    /\ Len(ctx'.hir.exprs) = Len(ctx.hir.exprs) + 2
    /\ SubSeq(ctx'.hir.exprs, 1, Len(ctx.hir.exprs)) = ctx.hir.exprs
    /\ NewExpr.tag = "Binary"
    /\ NewExpr[field] = Len(ctx.hir.exprs)
    /\ NewExpr[field] # bad.expr
    /\ ctx'.hir.exprs[NewExpr[field] + 1] = Expr_Missing
    /\ NewExpr[other] = good.expr

OneReplaced ==
    IF TyOfVal(vals[2]) # "U32"
    THEN Replaced(vals[2], vals[1], Top.where \o <<1>>, "lhs", "rhs")
    ELSE Replaced(vals[1], vals[2], Top.where \o <<2>>, "rhs", "lhs")

\* C10 as stated: for a binary expression in which exactly one operand has
\* a type other than U32 and the other is U32-typed, lowering records
\* exactly one TyMismatch whose range is the failing operand's, replaces
\* only that operand's ID with a freshly allocated Missing and leaves the
\* other operand's ID as lowered.
C10_AsStated == [][OneOperandFails => OneReplaced]_vars

\* C10: the same, for a binary expression whose operator and whose two
\* operands are present in the syntax tree.
C10_OneMismatch ==
    [][/\ OneOperandFails
       /\ Top.cst.op # None
       /\ Top.cst.lhs # NoNode
       /\ Top.cst.rhs # NoNode
       => OneReplaced]_vars

\* a returned HIR of `7 + m.f()`: the call, typed Void, was replaced by a
\* fresh Missing, the integer kept, one TyMismatch at the rhs
C10_Witness ==
    /\ lpc = "done"
    /\ Len(unit) = 1 /\ unit[1].kind = "Function"
    /\ unit[1].body.kind = "BlockExpr" /\ Len(unit[1].body.stmts) = 1
    /\ unit[1].body.stmts[1].value =
          BinaryExpr(IntegerExpr(<<7>>), CallExpr(ForeignPath("m", "f")), "Plus")
    /\ Len(ctx.errors) = 1
    /\ ctx.errors[1].kind.tag = "TyMismatch"
    /\ ctx.errors[1].range = Range(<<1, 0, 1, 2>>, "expr")
    /\ \E i \in 1..Len(ctx.hir.exprs) :
          /\ ctx.hir.exprs[i].tag = "Binary"
          /\ ctx.hir.exprs[ctx.hir.exprs[i].lhs + 1].tag = "Integer"
          /\ ctx.hir.exprs[ctx.hir.exprs[i].rhs + 1] = Expr_Missing
          /\ ctx.hir.exprs[i].rhs = i - 2
          /\ ctx.hir.exprs[i - 2].tag = "Call"

\* ------------------------------------------------------- printing claims

\* a sorts strictly before b: they part at a smaller byte of a, or a is a
\* proper prefix of b
Before(a, b) ==
    \E k \in 0..Len(a) :
        /\ k <= Len(b)
        /\ SubSeq(a, 1, k) = SubSeq(b, 1, k)
        /\ IF k = Len(a) THEN k < Len(b)
           ELSE k < Len(b) /\ a[k + 1] < b[k + 1]

Ascending(order) ==
    \A i, j \in 1..Len(order) :
        i < j => Before(Bytes(order[i][1]), Bytes(order[j][1]))

\* the text of the functions of hir in the given order, a blank line apart
RECURSIVE Rendered(_, _)
Rendered(hir, order) ==
    IF order = <<>> THEN <<>>
    ELSE IF Len(order) = 1
    THEN PrettyPrintCtx_item(hir, order[1][1], order[1][2], 0)
    ELSE Rendered(hir, SubSeq(order, 1, Len(order) - 1))
         \o <<"\n\n">>
         \o PrettyPrintCtx_item(hir, order[Len(order)][1],
                                order[Len(order)][2], 0)

\* C11: the text pretty_print returns is the functions of the HIR in
\* ascending byte order of their names, whatever order hir.map iterates
\* in: the text is a function of the contents of the HIR alone.
C11_SortedOutput ==
    printer.pc = "done" =>
        \E order \in IterOrders(printer.hir.map) :
            /\ Ascending(order)
            /\ printer.output = Rendered(printer.hir, order)

\* a printed HIR of three functions B, a and ab whose map iterated in
\* another order than the one printed
C11_Witness ==
    /\ printer.pc = "done"
    /\ MapKeys(printer.hir.map) = {"B", "a", "ab"}
    /\ ~Ascending(printer.iter)
    /\ printer.iter[1][1] = "ab"
    /\ Ascending(printer.map)
    /\ printer.map[1][1] = "B"
    /\ printer.output = Rendered(printer.hir, printer.map)

\* ------------------------------------------------- parser claims, cont.

\* the nodes open after the first n events: StartNodes less FinishNodes
OpenAfter(events, n) ==
    Cardinality({i \in 1..n : events[i].tag = "StartNode"})
    - Cardinality({i \in 1..n : events[i].tag = "FinishNode"})

\* the number of nodes open after each of the first n events
RECURSIVE Depths(_, _)
Depths(events, n) ==
    IF n = 0 THEN <<>>
    ELSE LET before == Depths(events, n - 1)
             change == CASE events[n].tag = "StartNode" -> 1
                         [] events[n].tag = "FinishNode" -> -1
                         [] OTHER -> 0
         IN  Append(before, (IF n = 1 THEN 0 ELSE before[n - 1]) + change)

\* source_file has returned
Parsed == pc \in {"process_events", "sink_loop", "done"}

\* after any number of events of the log no more nodes have been finished
\* than started, and every AddToken has an open node around it; once
\* source_file has returned every node is closed, the first event is
\* StartNode(SourceFile) and the last is the FinishNode that closes it
WellBracketed ==
    LET open == Depths(parser.events, Len(parser.events))
    IN  /\ \A n \in 1..Len(open) :
              /\ open[n] >= 0
              /\ parser.events[n].tag = "AddToken" => open[n] >= 1
        /\ Parsed =>
              /\ parser.events # <<>>
              /\ open[Len(open)] = 0
              /\ parser.events[1] = StartNode("SourceFile")
              /\ parser.events[Len(parser.events)] = FinishNode
              /\ \A n \in 1..(Len(open) - 1) : open[n] >= 1

\* C12: the event log is well bracketed in every state: it is while the
\* parser runs and when source_file has returned, and the tree builder
\* replays the log without changing it.
C12_WellBracketed ==
    /\ [](pc \notin {"sink_loop", "done"} => WellBracketed)
    /\ [][Parsed => parser'.events = parser.events]_vars

\* a parse that has returned with a Strukt, a Field and an Error node in
\* its log, nested three deep
C12_Witness ==
    /\ Parsed
    /\ \E i, j, k \in 1..Len(parser.events) :
          /\ parser.events[i] = StartNode("Strukt")
          /\ parser.events[j] = StartNode("Field")
          /\ parser.events[k] = StartNode("Error")
    /\ \E n \in 1..Len(parser.events) : OpenAfter(parser.events, n) >= 3
    /\ OpenAfter(parser.events, Len(parser.events)) = 0

\* ------------------------------------------------ lowering claims, cont.

\* the block_expr calls in progress
OpenBlocks == Cardinality({i \in 1..Len(stack) : stack[i].op = "block"})

\* the UndefinedVariable diagnostics recorded at the reference r
UndefinedAt(r) ==
    {e \in 1..Len(ctx.errors) :
        ctx.errors[e] = Error(ErrorKind("UndefinedVariable"),
                              Range(r.where, "expr"))}

\* C13: the scope stack holds one scope per block_expr in progress: a block
\* pushes one scope, pops one when it closes, and the stack is empty
\* before and after each top-level function; a reference to a name that
\* no enclosing block has bound before it (one bound only in a block that
\* has closed included) is Missing with one UndefinedVariable; the
\* LocalDefs allocated so far stay in the arena under their IDs.
C13_ScopesBalanced ==
    /\ [](/\ Len(ctx.scopes) = OpenBlocks
          /\ lpc = "done" => ctx.scopes = <<>>
          /\ Lowering /\ Top.op \in {"items", "function"} => ctx.scopes = <<>>
          /\ \A i \in 1..Len(refs) :
                InScope(refs[i]) = {} /\ refs[i].expr < Len(ctx.hir.exprs) =>
                    /\ ctx.hir.exprs[refs[i].expr + 1] = Expr_Missing
                    /\ Cardinality(UndefinedAt(refs[i])) = 1)
    /\ [][/\ AtExpr("BlockExpr") => Len(ctx'.scopes) = Len(ctx.scopes) + 1
          /\ Lowering /\ Top.op = "block" =>
                /\ Len(ctx'.scopes) = Len(ctx.scopes) - 1
                /\ ctx'.hir.local_defs = ctx.hir.local_defs
          /\ SubSeq(ctx'.hir.local_defs, 1, Len(ctx.hir.local_defs))
                = ctx.hir.local_defs]_vars

\* a returned HIR in which x, bound only in a nested block, was referenced
\* after that block closed: the reference is Missing with its
\* UndefinedVariable, and the LocalDef of the nested x is in the arena
C13_Witness ==
    /\ lpc = "done"
    /\ ctx.scopes = <<>>
    /\ \E i \in 1..Len(refs), n \in 1..Len(boundAt) :
          /\ ClosedBefore(n, refs[i])
          /\ Len(boundAt[n].where) >= 4
          /\ InScope(refs[i]) = {}
          /\ ctx.hir.exprs[refs[i].expr + 1] = Expr_Missing
          /\ UndefinedAt(refs[i]) # {}
          /\ n <= Len(ctx.hir.local_defs)
          /\ ctx.hir.exprs[ctx.hir.local_defs[n].value + 1].tag = "Integer"

\* the path names a module or an item that does not exist
PathUndefined(p) ==
    /\ p # NoNode
    /\ IF p.kind = "LocalPath"
       THEN p.item # None /\ p.item \notin MapKeys(Stub)
       ELSE /\ p.module # None
            /\ \/ p.module \notin MapKeys(Index.stubs)
               \/ /\ p.item # None
                  /\ p.item \notin MapKeys(MapGet(Index.stubs, p.module).value)

\* the places of the calls in cst, a node at where, that fail a semantic
\* check: an undefined module or item, or a struct where a function is
\* expected
RECURSIVE FailingCalls(_, _)
FailingCalls(cst, where) ==
    CASE cst.kind = "CallExpr" ->
            IF PathUndefined(cst.path) \/ Resolution(cst.path) = "Strukt"
            THEN {where} ELSE {}
      [] cst.kind = "BinaryExpr" ->
            FailingCalls(cst.lhs, where \o <<1>>)
            \cup FailingCalls(cst.rhs, where \o <<2>>)
      [] cst.kind = "BlockExpr" ->
            UNION {FailingCalls(cst.stmts[k].value, where \o <<k>>) :
                   k \in 1..Len(cst.stmts)}
      [] OTHER -> {}

\* the places of the failing constructs of the functions lower() has
\* lowered: the failing calls and the references to unbound names
FailingConstructs ==
    UNION {FailingCalls(unit[i].body, <<i, 0>>) :
           i \in {i \in 1..Len(unit) :
                    unit[i].kind = "Function" /\ unit[i].name # None}}
    \cup {refs[i].where : i \in {i \in 1..Len(refs) : InScope(refs[i]) = {}}}

\* the diagnostics whose range is the node at where or a part of it
DiagnosticsAt(where) ==
    {e \in 1..Len(ctx.errors) : ctx.errors[e].range.node = where}

\* C14: each construct that fails a semantic check (unbound variable,
\* unresolved path, call to a struct) contributes exactly one diagnostic
\* to the result of lower(), also as an operand of a binary expression:
\* no enclosing expression records a further diagnostic for it.
C14_OneDiagnosticEach ==
    lpc = "done" =>
        \A where \in FailingConstructs :
            Cardinality(DiagnosticsAt(where)) = 1

\* each failing construct has exactly one diagnostic of its own, and at
\* most a TyMismatch of the enclosing binary expression besides it
C14_OneOwnDiagnosticEach ==
    lpc = "done" =>
        \A where \in FailingConstructs :
            /\ Cardinality({e \in DiagnosticsAt(where) :
                              ctx.errors[e].kind.tag # "TyMismatch"}) = 1
            /\ Cardinality(DiagnosticsAt(where)) <= 2

\* the digits of a numeral without its leading zeros
RECURSIVE StripZeros(_)
StripZeros(text) ==
    IF Len(text) > 1 /\ Head(text) = 0 THEN StripZeros(Tail(text)) ELSE text

\* the decimal numeral a is at most the decimal numeral b, both without
\* leading zeros
RECURSIVE DigitsLe(_, _)
DigitsLe(a, b) ==
    IF Len(a) # Len(b) THEN Len(a) < Len(b)
    ELSE \/ a = <<>>
         \/ Head(a) < Head(b)
         \/ Head(a) = Head(b) /\ DigitsLe(Tail(a), Tail(b))

U32Max == <<4, 2, 9, 4, 9, 6, 7, 2, 9, 5>>

\* the step lowers the literal on top of the stack to Expr::Integer(v),
\* v the numeral's value, typed U32, with no diagnostic and no unwinding
IntegerLowered ==
    /\ lpc' = "lowering"
    /\ ctx'.panic = "none"
    /\ NewExpr.tag = "Integer"
    /\ u32_to_string(NewExpr.value)
         = [i \in 1..Len(StripZeros(Top.cst.text)) |->
              DigitChars[StripZeros(Top.cst.text)[i] + 1]]
    /\ ctx'.hir.tys[vals'[1].ty + 1] = "U32"
    /\ NewErrors = <<>>

\* C15: lowering an integer literal whose text is any non-empty string of
\* decimal digits yields Expr::Integer(v), v the numeral's value as an
\* unsigned 32-bit integer, typed U32, with no diagnostic and without
\* aborting.
C15_EveryLiteral ==
    [][AtExpr("IntegerExpr") /\ Top.cst.text # <<>> => IntegerLowered]_vars

\* the same for the literals whose value is at most u32::MAX
C15_LiteralsThatFit ==
    [][AtExpr("IntegerExpr") /\ DigitsLe(StripZeros(Top.cst.text), U32Max)
         => IntegerLowered]_vars

\* a literal above u32::MAX unwinds lower()
C15_WideLiteralUnwinds ==
    [][AtExpr("IntegerExpr") /\ ~DigitsLe(StripZeros(Top.cst.text), U32Max)
         => lpc' = "panicked" /\ ctx'.errors = ctx.errors]_vars

\* --------------------------------------------------- tree builder claims

\* a step of the loop of Sink::process_events, on event, followed by next
Replaying == Running /\ pc = "sink_loop" /\ idx < Len(parser.events) - 1

ReplayedEvent == parser.events[idx + 1]

FollowingEvent == parser.events[idx + 2]

\* the entries the step has added to the tree
Emitted == SubSeq(sink'.builder, Len(sink.builder) + 1, Len(sink'.builder))

\* the raw tokens the step has consumed
Consumed == SubSeq(raw, sink.cursor + 1, sink'.cursor)

\* the raw tokens that ReplayedEvent itself consumes
OwnTokens == IF ReplayedEvent.tag = "AddToken" THEN 1 ELSE 0

\* the entry ReplayedEvent itself adds to the tree
OwnEntry ==
    CASE ReplayedEvent.tag = "StartNode" -> NodeEntry(ReplayedEvent.kind)
      [] ReplayedEvent.tag = "AddToken" -> TokenEntry(raw[sink.cursor + 1])
      [] OTHER -> FinishEntry

\* once ReplayedEvent is handled, a whitespace token is next in raw
TriviaNext ==
    /\ sink.cursor + OwnTokens < Len(raw)
    /\ raw[sink.cursor + OwnTokens + 1].kind = Whitespace

TriviaLeaf == TokenEntry(raw[sink.cursor + OwnTokens + 1])

\* no node is opened by anything but a StartNode event
NoNodeFromTrivia ==
    \A i \in 1..Len(Emitted) :
        Emitted[i].tag = "Node" => i = 1 /\ ReplayedEvent.tag = "StartNode"

\* C16 as stated: a whitespace token that is next in the raw sequence is
\* emitted as a leaf immediately after the StartNode or AddToken event
\* that precedes it, and no whitespace leaf is emitted directly after a
\* FinishNode event; whitespace never opens a node.
C16_AsStated ==
    [][Replaying =>
        /\ sink'.panic = "none"
        /\ ReplayedEvent.tag \in {"StartNode", "AddToken"} /\ TriviaNext
              => Emitted = <<OwnEntry, TriviaLeaf>>
        /\ ReplayedEvent.tag = "FinishNode" => Emitted = <<FinishEntry>>
        /\ NoNodeFromTrivia]_vars

\* C16: after any event (StartNode, AddToken or FinishNode) that is
\* followed by a StartNode or AddToken event, a whitespace token that is
\* next in the raw sequence is emitted as one leaf, right after the entry
\* of the event and so as a child of the innermost node still open; after
\* an event that is followed by FinishNode no whitespace is emitted; a
\* whitespace token left at the end is emitted just before the root node
\* is closed; whitespace never opens a node.
C16_BeforeNextStartOrAdd ==
    [][/\ Replaying =>
            /\ sink'.panic = "none"
            /\ Emitted =
                 <<OwnEntry>>
                 \o (IF FollowingEvent.tag \in {"StartNode", "AddToken"}
                        /\ TriviaNext
                     THEN <<TriviaLeaf>> ELSE <<>>)
            /\ Len(Consumed) = Len(LeafTokens(Emitted))
            /\ NoNodeFromTrivia
       /\ Running /\ pc = "sink_loop" /\ idx = Len(parser.events) - 1 =>
            /\ sink'.panic = "none"
            /\ Emitted =
                 (IF TriviaNext THEN <<TriviaLeaf>> ELSE <<>>)
                 \o <<FinishEntry>>]_vars

\* a finished tree in which a whitespace leaf follows the end of a node,
\* another follows a token inside a node, and one was held back after a
\* token until its node was closed
C16_Witness ==
    /\ pc = "done"
    /\ \E i \in 1..(Len(sink.builder) - 2) :
          /\ sink.builder[i].tag = "Finish"
          /\ sink.builder[i + 1].kind = Whitespace
          /\ sink.builder[i + 2].tag = "Node"
    /\ \E i \in 1..(Len(sink.builder) - 1) :
          /\ sink.builder[i].tag = "Token"
          /\ sink.builder[i].kind # Whitespace
          /\ sink.builder[i + 1].kind = Whitespace
    /\ \E i \in 1..(Len(raw) - 1), j \in 1..(Len(sink.builder) - 2) :
          /\ raw[i].kind # Whitespace /\ raw[i + 1].kind = Whitespace
          /\ sink.builder[j] = TokenEntry(raw[i])
          /\ sink.builder[j + 1].tag = "Finish"
          /\ sink.builder[j + 2] = TokenEntry(raw[i + 1])

\* ------------------------------------------------ lowering claims, cont.

\* the var statement on top of the stack rebinds a name of the innermost
\* scope
Rebinding ==
    /\ Lowering /\ Top.op = "local_def"
    /\ Top.cst.name # None
    /\ ctx.scopes # <<>>
    /\ MapGet(ctx.scopes[Len(ctx.scopes)], Top.cst.name).some

\* the bindings d and e are of one name in one block, d first
ReboundBy(d, e) ==
    /\ boundAt[d].name = boundAt[e].name
    /\ boundAt[d].name # None
    /\ BlockOf(boundAt[d].where) = BlockOf(boundAt[e].where)
    /\ StmtOf(boundAt[d].where) < StmtOf(boundAt[e].where)

\* the bindings in scope at r are all of one block
OneBlock(r) ==
    \A d \in InScope(r), e \in InScope(r) :
        BlockOf(boundAt[d].where) = BlockOf(boundAt[e].where)

\* C17: a var statement that rebinds a name already bound in the same
\* scope records no diagnostic, allocates a new LocalDef and binds the name
\* to it, leaving the earlier LocalDef in the arena and the expressions
\* lowered so far as they are; a later reference in that scope is
\* Expr::Local of the latest LocalDef bound before it, and a reference
\* lowered before the rebinding stays Expr::Local of the earlier one.
C17_Rebinding ==
    /\ [][Rebinding =>
            /\ lpc' = "lowering"
            /\ ctx'.errors = ctx.errors
            /\ Len(ctx'.hir.local_defs) = Len(ctx.hir.local_defs) + 1
            /\ SubSeq(ctx'.hir.local_defs, 1, Len(ctx.hir.local_defs))
                 = ctx.hir.local_defs
            /\ ctx'.hir.exprs = ctx.hir.exprs
            /\ Len(ctx'.scopes) = Len(ctx.scopes)
            /\ MapGet(ctx'.scopes[Len(ctx.scopes)], Top.cst.name)
                 = [some |-> TRUE, value |-> Len(ctx.hir.local_defs)]
            /\ MapGet(ctx.scopes[Len(ctx.scopes)], Top.cst.name).value
                 < Len(ctx.hir.local_defs)]_vars
    /\ [](\A i \in 1..Len(refs) :
            /\ InScope(refs[i]) # {}
            /\ OneBlock(refs[i])
            /\ refs[i].expr < Len(ctx.hir.exprs)
            => \E d \in InScope(refs[i]) :
                  /\ \A e \in InScope(refs[i]) : e <= d
                  /\ ctx.hir.exprs[refs[i].expr + 1] = Expr_Local(d - 1))

\* a returned HIR without diagnostics in which x was bound, referenced,
\* bound again in the same block and referenced again: the first reference
\* is Local of the first LocalDef, the second of the second, and both
\* LocalDefs are in the arena
C17_Witness ==
    /\ lpc = "done"
    /\ ctx.errors = <<>>
    /\ \E d \in 1..Len(boundAt), e \in 1..Len(boundAt),
          i \in 1..Len(refs), j \in 1..Len(refs) :
          /\ ReboundBy(d, e)
          /\ InScope(refs[i]) = {d}
          /\ refs[i].ndefs < e
          /\ ctx.hir.exprs[refs[i].expr + 1] = Expr_Local(d - 1)
          /\ InScope(refs[j]) = {d, e}
          /\ ctx.hir.exprs[refs[j].expr + 1] = Expr_Local(e - 1)
          /\ e <= Len(ctx.hir.local_defs)

\* binary_expr is about to return
BinaryReturns == Lowering /\ Top.op = "binary"

\* the type the step returns to the caller of expr()
ReturnedTy == ctx'.hir.tys[vals'[1].ty + 1]

\* C18 as stated: the type returned for every lowered binary expression is
\* U32, for every BinaryExpr CST node and whatever the validity of its
\* operands.
C18_AsStated ==
    [][BinaryReturns => lpc' = "lowering" /\ ReturnedTy = "U32"]_vars

\* C18: the type returned for a lowered binary expression whose operator is
\* present is U32, whatever the validity of its operands (valid,
\* mismatched or absent), and the expression is Expr::Binary; for a
\* BinaryExpr node without operator the expression is Missing, its type
\* Unknown, and no diagnostic is recorded.
C18_U32WithOperator ==
    [][BinaryReturns =>
        /\ lpc' = "lowering"
        /\ IF Top.cst.op # None
           THEN ReturnedTy = "U32" /\ NewExpr.tag = "Binary"
           ELSE /\ ReturnedTy = "Unknown"
                /\ NewExpr = Expr_Missing
                /\ NewErrors = <<>>]_vars

\* a returned HIR with a Binary typed U32 whose two operands, both of
\* another type, were both replaced by a fresh Missing
C18_Witness ==
    /\ lpc = "done"
    /\ \E i \in 3..Len(ctx.hir.exprs) :
          /\ ctx.hir.exprs[i].tag = "Binary"
          /\ TypeOf(i - 1) = "U32"
          /\ ctx.hir.exprs[i].lhs = i - 3
          /\ ctx.hir.exprs[i].rhs = i - 2
          /\ ctx.hir.exprs[i - 2] = Expr_Missing
          /\ ctx.hir.exprs[i - 1] = Expr_Missing
    /\ Cardinality({e \in 1..Len(ctx.errors) :
                      ctx.errors[e].kind.tag = "TyMismatch"}) = 2

\* the diagnostics of path resolution among those the step has recorded
LookupErrors ==
    SelectSeq(NewErrors,
              LAMBDA e : e.kind.tag \in {"UndefinedModule", "UndefinedItem"})

\* the module of the foreign path p is not in the index
ModuleAbsent(p) ==
    /\ p.kind = "ForeignPath"
    /\ p.module # None
    /\ p.module \notin MapKeys(Index.stubs)

\* the module of p is found, and has no item of the name p gives
ItemAbsent(p) ==
    /\ p.item # None
    /\ \/ p.kind = "LocalPath" /\ p.item \notin MapKeys(Stub)
       \/ /\ p.kind = "ForeignPath"
          /\ p.module \in MapKeys(Index.stubs)
          /\ p.item \notin MapKeys(MapGet(Index.stubs, p.module).value)

\* C19: resolving one path records at most one diagnostic, the module
\* lookup first: a foreign path whose module is not in the index records
\* exactly one UndefinedModule at the module name's range and no
\* UndefinedItem, whatever its item; a foreign or local path whose module
\* is found but whose item is absent records exactly one UndefinedItem at
\* the item name's range; any other path records neither.
C19_OneLookupDiagnostic ==
    [][AtExpr("CallExpr") /\ Top.cst.path # NoNode =>
         LET p == Top.cst.path
         IN  /\ Len(NewErrors) <= 1
             /\ SubSeq(ctx'.errors, 1, Len(ctx.errors)) = ctx.errors
             /\ ModuleAbsent(p) =>
                   NewErrors = <<Error(ErrorKind("UndefinedModule"),
                                       Range(Top.where, "module"))>>
             /\ ItemAbsent(p) =>
                   NewErrors = <<Error(ErrorKind("UndefinedItem"),
                                       Range(Top.where, "item"))>>
             /\ ~ModuleAbsent(p) /\ ~ItemAbsent(p) => LookupErrors = <<>>]_vars

\* a returned HIR of a call of zz.g, where neither the module zz nor an
\* item g of it exists: the one diagnostic is UndefinedModule
C19_Witness ==
    /\ lpc = "done"
    /\ Len(unit) = 1 /\ unit[1].kind = "Function"
    /\ unit[1].body.kind = "BlockExpr" /\ Len(unit[1].body.stmts) = 1
    /\ unit[1].body.stmts[1].value = CallExpr(ForeignPath("zz", "g"))
    /\ ctx.errors = <<Error(ErrorKind("UndefinedModule"),
                            Range(<<1, 0, 1>>, "module"))>>

\* the reference r is inside the initializer of the var statement whose
\* binding is d, and is of the name that statement binds
OwnInitializer(d, r) ==
    /\ boundAt[d].name = r.name
    /\ Len(r.where) >= Len(boundAt[d].where)
    /\ SubSeq(r.where, 1, Len(boundAt[d].where)) = boundAt[d].where

\* the LocalDefs that the expression id leads to through Local references,
\* in at most fuel steps
RECURSIVE DefsFrom(_, _)
DefsFrom(id, fuel) ==
    IF fuel = 0 \/ id >= Len(ctx.hir.exprs) THEN {}
    ELSE LET e == ctx.hir.exprs[id + 1]
             ValueOf(def) ==
                 IF def < Len(ctx.hir.local_defs)
                 THEN DefsFrom(ctx.hir.local_defs[def + 1].value, fuel - 1)
                 ELSE {}
         IN  CASE e.tag = "Local" -> {e.def} \cup ValueOf(e.def)
               [] e.tag = "Binary" ->
                     DefsFrom(e.lhs, fuel - 1) \cup DefsFrom(e.rhs, fuel - 1)
               [] e.tag = "Block" ->
                     UNION {ValueOf(e.stmts[k]) : k \in 1..Len(e.stmts)}
               [] OTHER -> {}

\* C20: a var statement's initializer is lowered before its name is bound:
\* no scope binds a name to a LocalDef not yet allocated; a reference to
\* the name inside its own initializer is Missing or Local of another
\* LocalDef; every Expr::Local comes from a reference and refers to a
\* LocalDef allocated before the reference was lowered; no LocalDef's
\* value leads to that LocalDef through Local references.
C20_DefinedBeforeUse ==
    /\ ctx.panic # "local_defs.get: no such ID"
    /\ \A s \in 1..Len(ctx.scopes) :
          \A b \in ctx.scopes[s] : b[2] < Len(ctx.hir.local_defs)
    /\ \A i \in 1..Len(refs) :
          refs[i].expr < Len(ctx.hir.exprs) =>
             LET e == ctx.hir.exprs[refs[i].expr + 1]
             IN  /\ e.tag \in {"Missing", "Local"}
                 /\ e.tag = "Local" => e.def < refs[i].ndefs
                 /\ \A d \in 1..Len(boundAt) :
                       OwnInitializer(d, refs[i]) => e # Expr_Local(d - 1)
    /\ \A i \in 1..Len(ctx.hir.exprs) :
          ctx.hir.exprs[i].tag = "Local" =>
             \E r \in 1..Len(refs) : refs[r].expr = i - 1
    /\ \A d \in 1..Len(ctx.hir.local_defs) :
          (d - 1) \notin DefsFrom(ctx.hir.local_defs[d].value,
                                  2 * Len(ctx.hir.exprs) + 1)

\* a returned HIR of { var x = 7  var x = x }: the reference to x inside
\* the initializer of the second x is Local of the first LocalDef, and the
\* value of the second LocalDef leads to the first only
C20_Witness ==
    /\ lpc = "done"
    /\ \E d \in 1..Len(boundAt), e \in 1..Len(boundAt), i \in 1..Len(refs) :
          /\ ReboundBy(d, e)
          /\ OwnInitializer(e, refs[i])
          /\ ctx.hir.exprs[refs[i].expr + 1] = Expr_Local(d - 1)
          /\ e <= Len(ctx.hir.local_defs)
          /\ ctx.hir.local_defs[e].value = refs[i].expr
          /\ DefsFrom(ctx.hir.local_defs[e].value,
                      2 * Len(ctx.hir.exprs) + 1) = {d - 1}

\* the function items of the unit that lower() hands to function()
FunctionItems ==
    {i \in 1..Len(unit) : unit[i].kind = "Function" /\ unit[i].name # None}

\* the items of a set of item indices, in source order
RECURSIVE SetToSortedItems(_)
SetToSortedItems(S) ==
    IF S = {} THEN <<>>
    ELSE LET last == CHOOSE i \in S : \A j \in S : j <= i
         IN  Append(SetToSortedItems(S \ {last}), last)

\* the last function item of the name, in source order
LastOf(name) ==
    CHOOSE i \in FunctionItems :
        /\ unit[i].name = name
        /\ \A j \in FunctionItems : unit[j].name = name => j <= i

\* the expressions the expression id leads to, itself included: operands,
\* the values of a block's statements and of referenced LocalDefs, in at
\* most fuel steps
RECURSIVE ExprsFrom(_, _)
ExprsFrom(id, fuel) ==
    IF fuel = 0 \/ id >= Len(ctx.hir.exprs) THEN {}
    ELSE LET e == ctx.hir.exprs[id + 1]
             ValueOf(def) ==
                 IF def < Len(ctx.hir.local_defs)
                 THEN ExprsFrom(ctx.hir.local_defs[def + 1].value, fuel - 1)
                 ELSE {}
         IN  {id} \cup
             CASE e.tag = "Local" -> ValueOf(e.def)
               [] e.tag = "Binary" ->
                     ExprsFrom(e.lhs, fuel - 1) \cup ExprsFrom(e.rhs, fuel - 1)
               [] e.tag = "Block" ->
                     UNION {ValueOf(e.stmts[k]) : k \in 1..Len(e.stmts)}
               [] OTHER -> {}

\* the expressions reachable from the entries of hir.map
ReachableFromMap ==
    UNION {ExprsFrom(e[2], 2 * Len(ctx.hir.exprs) + 1) : e \in ctx.hir.map}

\* s is the beginning of t
IsPrefix(s, t) == Len(s) <= Len(t) /\ SubSeq(t, 1, Len(s)) = s

\* C21: when lower() returns, hir.map has exactly one entry for each name
\* of a function item, and it points to the body of the last item of that
\* name in source order; the body of every earlier item of the name is
\* still in the arena, where nothing allocated is ever changed, and no
\* expression of it is reachable from the map; the diagnostics recorded
\* up to the end of each function, overwritten or not, begin the
\* diagnostics returned.
C21_LastFunctionWins ==
    /\ [](lpc = "done" =>
            /\ MapKeys(ctx.hir.map) = {unit[i].name : i \in FunctionItems}
            /\ \A e \in ctx.hir.map, f \in ctx.hir.map :
                  e[1] = f[1] => e = f
            /\ [k \in 1..Len(bodyAt) |-> bodyAt[k].item]
                 = SetToSortedItems(FunctionItems)
            /\ \A k \in 1..Len(bodyAt) :
                  LET b == bodyAt[k]
                  IN  /\ b.name = unit[b.item].name
                      /\ b.expr < Len(ctx.hir.exprs)
                      /\ ctx.hir.exprs[b.expr + 1].tag =
                           (IF unit[b.item].body = NoNode
                            THEN "Missing" ELSE "Block")
                      /\ IsPrefix(b.errors, ctx.errors)
                      /\ IF b.item = LastOf(b.name)
                         THEN <<b.name, b.expr>> \in ctx.hir.map
                         ELSE ExprsFrom(b.expr, 2 * Len(ctx.hir.exprs) + 1)
                                \cap ReachableFromMap = {})
    /\ [][/\ IsPrefix(ctx.hir.exprs, ctx'.hir.exprs)
          /\ IsPrefix(ctx.hir.local_defs, ctx'.hir.local_defs)
          /\ IsPrefix(ctx.hir.tys, ctx'.hir.tys)
          /\ IsPrefix(ctx.errors, ctx'.errors)]_vars

\* a returned HIR of two functions of one name, the first with a body
\* that recorded a diagnostic: the map's one entry is the second body, the
\* first body is in the arena, and its diagnostic is returned
C21_Witness ==
    /\ lpc = "done"
    /\ Len(bodyAt) = 2
    /\ bodyAt[1].name = bodyAt[2].name
    /\ bodyAt[1].errors # <<>>
    /\ IsPrefix(bodyAt[1].errors, ctx.errors)
    /\ ctx.hir.map = {<<bodyAt[2].name, bodyAt[2].expr>>}
    /\ bodyAt[1].expr < bodyAt[2].expr
    /\ ctx.hir.exprs[bodyAt[1].expr + 1].tag = "Block"
    /\ ctx.hir.exprs[bodyAt[1].expr + 1].stmts # <<>>

=============================================================================
